---- MODULE Spec2Model ----
(***************************************************************************)
(* The IoC container of ts5deco-inject (class Container): registrations,   *)
(* scoped resolution with cycle detection, the parent/child hierarchy and  *)
(* disposal.  One action per public method of Container; the private       *)
(* helpers are operators that thread the mutable state (instance maps,     *)
(* heap of constructed objects, resolution context) through the recursion. *)
(***************************************************************************)
EXTENDS Integers, Sequences, FiniteSets, TLC

(* ------------------------------ bounds --------------------------------- *)

\* Containers ever created (the root included).
MaxContainers == 2

\* register() calls that may still start (registration serial numbers).
MaxRegs == 2

\* Objects on the heap (the precomputed value object included).
MaxObj == 3

\* Pre-destroy rounds one object may go through.
MaxPre == 1

(* --------------------------- program constants ------------------------- *)

\* `undefined`: the result of a lookup that found nothing.
Undefined == 0

\* The root container (new Container(options), no parent).
Root == 1

\* The precomputed instance handed to value providers (useValue).
TheValue == 1

Nil == "nil"

SINGLETON == "singleton"

PROTOTYPE == "prototype"

TRANSIENT == "transient"

\* Service identifiers. "A" and "B" are class identities (typeof === 'function'),
\* "D" is a string token.
Tokens == {"A", "B", "D"}

Classes == {"A", "B", "F", "L"}

\* The dependency descriptors the decorators attach to each class:
\* constructor dependencies (setClassMetadata), injectable properties
\* (@Inject) and lifecycle hook methods (@PostConstruct, @PreDestroy).
\*   class A { constructor(b: B); @Inject(D, optional) d; @Inject(B) b;
\*             @PostConstruct init(); @PreDestroy stop() }
\*   class B { @Inject(D, optional) d; @PreDestroy close() }
\*   class F { @PostConstruct initialize() }      (FlakyService)
\*   class L { @PostConstruct async setup(); @PreDestroy async cleanup() }
\*                                                (ServiceWithLifecycle)
ClassMeta(cls) ==
    IF cls = "A"
    THEN [dependencies |-> <<"B">>,
          properties   |-> <<[key |-> "d", token |-> "D", optional |-> TRUE],
                             [key |-> "b", token |-> "B", optional |-> FALSE]>>,
          injectable   |-> TRUE,
          scope        |-> SINGLETON,
          postConstruct |-> <<"init">>,
          preDestroy   |-> <<"stop">>]
    ELSE IF cls = "B"
    THEN [dependencies |-> <<>>,
          properties   |-> <<[key |-> "d", token |-> "D", optional |-> TRUE]>>,
          injectable   |-> TRUE,
          scope        |-> PROTOTYPE,
          postConstruct |-> <<>>,
          preDestroy   |-> <<"close">>]
    ELSE IF cls = "L"
    THEN [dependencies |-> <<>>,
          properties   |-> <<>>,
          injectable   |-> TRUE,
          scope        |-> SINGLETON,
          postConstruct |-> <<"setup">>,
          preDestroy   |-> <<"cleanup">>]
    ELSE [dependencies |-> <<>>,
          properties   |-> <<>>,
          injectable   |-> TRUE,
          scope        |-> SINGLETON,
          postConstruct |-> <<"initialize">>,
          preDestroy   |-> <<>>]

\* The lifecycle methods whose body throws: FlakyService.initialize fails on
\* the first attempt of every instance, which is the only one it gets
\* (attempts is an instance field).
ThrowingMethods == {"initialize"}

\* The lifecycle methods declared async whose body awaits: a call returns a
\* promise at the first await, and the rest of the body runs when what it
\* awaits has settled.
AsyncMethods == {"setup", "cleanup"}

DEFAULT_CONTAINER_OPTIONS ==
    [defaultScope |-> SINGLETON,
     autoBindInjectable |-> TRUE,
     throwOnMissingDependencies |-> TRUE]

(* ------------------------------- state --------------------------------- *)

VARIABLES
    containers,     \* ids of the Container objects created so far
    parent,         \* Container.parent (0: none)
    children,       \* Container.children
    options,        \* Container.options
    disposed,       \* Container.disposed
    registrations,  \* Container.registrations : token -> ServiceRegistration
    instances,      \* Container.instances : token -> ServiceInstance
    heap,           \* every object built so far; an object's identity is its index
    nextRid,        \* serial number of the next ServiceRegistration object
    booted,         \* a flag of the user's code (guards its one re-entrant call)
    metadataStorage, \* the ROUTES metadata of each controller class
    constructed,    \* the number of controller instances constructed so far
    router,         \* the routes of the Router the application uses
    response        \* what the last request through the router did

containerVars == <<containers, parent, children, options, disposed, registrations,
                   instances, heap, nextRid, booted>>

expressVars == <<metadataStorage, constructed, router, response>>

vars == <<containers, parent, children, options, disposed, registrations,
          instances, heap, nextRid, booted,
          metadataStorage, constructed, router, response>>

CIds == 1..MaxContainers

EmptyMap == [x \in {} |-> Nil]

MapSet(map, k, v) == [x \in (DOMAIN map) \cup {k} |-> IF x = k THEN v ELSE map[x]]

MapDelete(map, k) == [x \in (DOMAIN map) \ {k} |-> map[x]]

(* -------------------------- records of the code ------------------------- *)

\* findRegistration's `undefined`.
NoReg == [token |-> Nil]

\* instances.get(token) when the map has no entry.
NoInst == [instance |-> Undefined, scope |-> Nil, disposed |-> FALSE, seq |-> 0]

\* ServiceInstance (createdAt, lastAccessed and accessCount are statistics no
\* decision reads; they are left out).  seq is the entry's place in the
\* insertion order of the Map that holds it.
NewServiceInstance(instance, scope, seq) ==
    [instance |-> instance, scope |-> scope, disposed |-> FALSE, seq |-> seq]

\* The place Map.set gives an entry: the one the key has, or the end.
PlaceOf(map, k) ==
    IF k \in DOMAIN map THEN map[k].seq
    ELSE IF DOMAIN map = {} THEN 1
    ELSE 1 + (CHOOSE n \in {map[x].seq : x \in DOMAIN map} :
                 \A x \in DOMAIN map : map[x].seq <= n)

\* Map.delete on a Map of ServiceInstances: the entries left keep their
\* order, counted from 1 again.
DeleteEntry(map, k) ==
    [x \in (DOMAIN map) \ {k} |->
        [map[x] EXCEPT !.seq = Cardinality({y \in (DOMAIN map) \ {k} :
                                               map[y].seq <= map[x].seq})]]

\* The keys of a Map of ServiceInstances in its iteration (insertion) order.
RECURSIVE EntriesOf(_, _)
EntriesOf(map, keys) ==
    IF keys = {} THEN <<>>
    ELSE LET k == CHOOSE x \in keys : \A y \in keys : map[x].seq <= map[y].seq
         IN  <<k>> \o EntriesOf(map, keys \ {k})

\* The elements of a Set of containers in its iteration (insertion) order:
\* children are added in the order they are created.
RECURSIVE Ascending(_)
Ascending(set) ==
    IF set = {} THEN <<>>
    ELSE LET k == CHOOSE x \in set : \A y \in set : x <= y
         IN  <<k>> \o Ascending(set \ {k})

\* An object on the heap.  kind/cls/args/fields/post/pre are the object's own
\* state; rid, token, owner and cont record which registration built it, for
\* which token and scope, which container holds that registration, and
\* through which container it was resolved; seen records the properties that were set
\* when its post-construct methods were called (history, read by the
\* properties only).  awaiting holds the async lifecycle methods of the
\* object that were called and whose promise has not settled.
NewObject(kind, cls, registration, cont, args) ==
    [kind |-> kind, cls |-> cls, rid |-> registration.rid,
     token |-> registration.token, owner |-> registration.owner, cont |-> cont,
     scope |-> registration.options.scope,
     args |-> args, fields |-> EmptyMap, post |-> 0, pre |-> 0, seen |-> {},
     awaiting |-> {}]

\* The outcome of a call: a returned value or a thrown error, and the state it left.
Return(m, v) == [m |-> m, ok |-> TRUE, val |-> v, err |-> Nil, chain |-> <<>>]

Throw(m, e, chain) == [m |-> m, ok |-> FALSE, val |-> Undefined, err |-> e, chain |-> chain]

\* ResolutionContext of a top-level resolve, with the state the resolution
\* works on (the registration maps, the instance maps, the heap).  overflow,
\* cycle and swallowed are history: whether the call stack ran out, the chain
\* of the first CircularDependencyError thrown, and the errors the catch of
\* injectProperties did not throw again.
NewContext(regs, inst, hp, flag) ==
    [registrations |-> regs, instances |-> inst, heap |-> hp, stack |-> <<>>,
     cache |-> EmptyMap, booted |-> flag, overflow |-> FALSE, cycle |-> <<>>,
     swallowed |-> {}]

\* Nested resolveWithContext frames the call stack holds.  A resolution that
\* needs more ends in RangeError; every stack of distinct tokens fits.
StackLimit == Cardinality(Tokens) + 1

(* ---------------------------- resolution ------------------------------- *)

\* findRegistration against the registration maps regs.
RECURSIVE FindRegistration(_, _, _)
FindRegistration(c, token, regs) ==
    IF token \in DOMAIN regs[c] THEN regs[c][token]
    ELSE IF parent[c] # 0 THEN FindRegistration(parent[c], token, regs)
    ELSE NoReg

\* A faulty flag test: no container counts as disposed.
NeverDisposed(self) == FALSE

\* throwIfDisposed: whether it throws ContainerError.
ThrowIfDisposed(self) == disposed[self]

\* A faulty includes(): it never finds the token.
StackNeverIncludes(stack, token) == FALSE

\* context.resolutionStack.includes(token)
StackIncludes(stack, token) == \E i \in 1..Len(stack) : stack[i] = token

\* resolutionStack.pop()
Pop(stack) == SubSeq(stack, 1, Len(stack) - 1)

\* A faulty scope test: PROTOTYPE is cached like SINGLETON.
IsCachedScope(scope) == scope \in {SINGLETON, PROTOTYPE}

\* scope === ServiceScope.SINGLETON
IsSingleton(scope) == scope = SINGLETON

\* A faulty instances.get(): it never finds an entry.
NoCachedInstance(self, token, m) == NoInst

\* this.instances.get(token)
GetInstance(self, token, m) ==
    IF token \in DOMAIN m.instances[self] THEN m.instances[self][token] ELSE NoInst

\* The methods of an object that carry the lifecycle mark, in declaration
\* order (objects that are no instances of a decorated class have none).
LifecycleMethods(hp, id, lifecycle) ==
    IF id \notin 1..Len(hp) \/ hp[id].kind # "class" THEN <<>>
    ELSE IF lifecycle = "postConstruct" THEN ClassMeta(hp[id].cls).postConstruct
    ELSE ClassMeta(hp[id].cls).preDestroy

\* Whether callLifecycleMethods ends in the error of a method it calls.
LifecycleThrows(hp, id, lifecycle) ==
    \E i \in 1..Len(LifecycleMethods(hp, id, lifecycle)) :
        LifecycleMethods(hp, id, lifecycle)[i] \in ThrowingMethods

\* The methods that return before the loop ends: all of them, or those
\* declared before the first one that throws.
CompletedMethods(methods) ==
    Cardinality({i \in 1..Len(methods) :
                    \A j \in 1..i : methods[j] \notin ThrowingMethods})

\* The promises method.call(instance) returned and nobody awaits: those of
\* the async methods among the ones called.
PromisesOf(methods) ==
    {methods[i] : i \in {j \in 1..CompletedMethods(methods) : methods[j] \in AsyncMethods}}

\* callLifecycleMethods on an object: every method of its class that carries
\* the lifecycle mark is called once, in declaration order.  post and pre
\* count the calls that returned; the promise an async method returned is
\* dropped.
CallLifecycleMethods(hp, id, lifecycle) ==
    IF id \notin 1..Len(hp) \/ hp[id].kind # "class" THEN hp
    ELSE IF lifecycle = "postConstruct"
         THEN [hp EXCEPT ![id].post =
                   @ + CompletedMethods(LifecycleMethods(hp, id, lifecycle)),
                         ![id].seen = DOMAIN hp[id].fields,
                         ![id].awaiting =
                   @ \cup PromisesOf(LifecycleMethods(hp, id, lifecycle))]
         ELSE [hp EXCEPT ![id].pre =
                   @ + CompletedMethods(LifecycleMethods(hp, id, lifecycle)),
                         ![id].awaiting =
                   @ \cup PromisesOf(LifecycleMethods(hp, id, lifecycle))]

RECURSIVE ResolveWithContext(_, _, _, _, _)
RECURSIVE CreateInstance(_, _, _, _, _)
RECURSIVE CreateClassInstance(_, _, _, _, _)
RECURSIVE ResolveDependencies(_, _, _, _)
RECURSIVE InjectProperties(_, _, _, _, _)
RECURSIVE CallFactory(_, _, _)
RECURSIVE ResolveIn(_, _, _)

\* The caller's state once a nested top-level resolve has returned `inner`:
\* the caller keeps its own resolution context.
LeaveContext(m, inner) ==
    [inner EXCEPT !.m.stack = m.stack, !.m.cache = m.cache,
                  !.m.overflow = m.overflow \/ inner.m.overflow,
                  !.m.cycle = IF m.cycle # <<>> THEN m.cycle ELSE inner.m.cycle,
                  !.m.swallowed = m.swallowed \cup inner.m.swallowed]

\* Container.resolve: a fresh ResolutionContext on the state m carries.
ResolveIn(self, token, m) ==
    IF ThrowIfDisposed(self) THEN Throw(m, "ContainerError", <<>>)
    ELSE LeaveContext(m, ResolveWithContext(self, token, FALSE,
                             NewContext(m.registrations, m.instances, m.heap,
                                        m.booted),
                             StackLimit))

\* resolveWithContext from the return of createInstance (`made`) on: store
\* the singleton on this container, fill the context cache, run onActivation,
\* and pop the stack whatever happened.
StoreInstance(self, token, registration, made) ==
    IF ~made.ok THEN [made EXCEPT !.m.stack = Pop(@)]
    ELSE
    LET scope == registration.options.scope
        stored == IF IsSingleton(scope)
                  THEN [made.m EXCEPT !.instances[self] =
                            MapSet(@, token, NewServiceInstance(made.val, scope,
                                                                PlaceOf(@, token)))]
                  ELSE made.m
        cached == [stored EXCEPT !.cache = MapSet(@, token, made.val),
                                 !.stack = Pop(@)]
    IN
    IF registration.options.onActivation = "throw"
    THEN Throw(cached, "ActivationError", <<token>>)
    ELSE Return(cached, made.val)

ResolveWithContext(self, token, isOptional, m, fuel) ==
    IF fuel = 0 THEN Throw([m EXCEPT !.overflow = TRUE], "RangeError", m.stack)
    ELSE IF StackIncludes(m.stack, token)
    THEN Throw([m EXCEPT !.cycle = IF @ = <<>> THEN Append(m.stack, token) ELSE @],
               "CircularDependencyError", Append(m.stack, token))
    ELSE IF token \in DOMAIN m.cache THEN Return(m, m.cache[token])
    ELSE
    LET registration == FindRegistration(self, token, m.registrations) IN
    IF registration = NoReg
    THEN IF options[self].throwOnMissingDependencies /\ ~isOptional
         THEN Throw(m, "ServiceNotFoundError", <<token>>)
         ELSE Return(m, Undefined)
    ELSE
    LET existingInstance == GetInstance(self, token, m) IN
    IF IsSingleton(registration.options.scope) /\ existingInstance # NoInst
    THEN Return(m, existingInstance.instance)
    ELSE StoreInstance(self, token, registration,
             CreateInstance(self, registration, isOptional,
                            [m EXCEPT !.stack = Append(@, token)], fuel - 1))

CreateInstance(self, registration, isOptional, m, fuel) ==
    LET provider == registration.provider IN
    IF provider.type = "class"
    THEN CreateClassInstance(self, registration, provider.useClass, m, fuel)
    ELSE IF provider.type = "value" THEN Return(m, provider.useValue)
    ELSE IF provider.type = "factory"
    THEN CallFactory(self, registration,
                     ResolveDependencies(self, provider.deps, m, fuel))
    ELSE IF provider.type = "existing"
    THEN ResolveWithContext(self, provider.useExisting, isOptional, m, fuel)
    ELSE Throw(m, "InvalidProviderError", <<provider.token>>)

\* The object the user's factory function returns, built from its arguments
\* once its own call into the container (`before`) has returned.
UseFactory(self, registration, args, before) ==
    IF ~before.ok THEN before
    ELSE Return([before.m EXCEPT !.heap = Append(@,
                    NewObject("factory", Nil, registration, self, args))],
                Len(before.m.heap) + 1)

\* provider.useFactory(...dependencies), given the outcome of resolving the
\* dependencies.  A re-entrant factory first calls resolve on the container
\* it was registered on (once: its own flag guards the call).
CallFactory(self, registration, dependencies) ==
    IF ~dependencies.ok THEN dependencies
    ELSE UseFactory(self, registration, dependencies.val,
             IF registration.provider.reenter # Nil /\ ~dependencies.m.booted
             THEN ResolveIn(registration.owner, registration.provider.reenter,
                            [dependencies.m EXCEPT !.booted = TRUE])
             ELSE Return(dependencies.m, Undefined))

\* A faulty createClassInstance: it returns the instance without calling
\* the post-construct methods.
SkipPostConstruct(id, injected) ==
    IF ~injected.ok THEN injected ELSE Return(injected.m, id)

\* createClassInstance once the properties are injected: the post-construct
\* methods, then the instance.
PostConstruct(id, injected) ==
    IF ~injected.ok THEN injected
    ELSE IF LifecycleThrows(injected.m.heap, id, "postConstruct")
    THEN Throw([injected.m EXCEPT !.heap =
                    CallLifecycleMethods(@, id, "postConstruct")], "Error", <<>>)
    ELSE Return([injected.m EXCEPT !.heap =
                     CallLifecycleMethods(@, id, "postConstruct")], id)

\* createClassInstance from `new constructor(...dependencies)` on.
Construct(self, registration, constructor, fuel, resolvedDependencies) ==
    IF ~resolvedDependencies.ok THEN resolvedDependencies
    ELSE PostConstruct(Len(resolvedDependencies.m.heap) + 1,
             InjectProperties(self, Len(resolvedDependencies.m.heap) + 1,
                 ClassMeta(constructor).properties,
                 [resolvedDependencies.m EXCEPT !.heap = Append(@,
                     NewObject("class", constructor, registration, self,
                               resolvedDependencies.val))],
                 fuel))

CreateClassInstance(self, registration, constructor, m, fuel) ==
    Construct(self, registration, constructor, fuel,
              ResolveDependencies(self, ClassMeta(constructor).dependencies, m, fuel))

\* The array map() returns: the first element before the rest.
Prepend(v, rest) ==
    IF ~rest.ok THEN rest ELSE Return(rest.m, <<v>> \o rest.val)

\* map() after its first element is resolved.
MapRest(self, tokens, fuel, first) ==
    IF ~first.ok THEN first
    ELSE Prepend(first.val, ResolveDependencies(self, tokens, first.m, fuel))

\* tokens.map(token => resolveWithContext(token, {...context, isOptional: false}))
ResolveDependencies(self, tokens, m, fuel) ==
    IF tokens = <<>> THEN Return(m, <<>>)
    ELSE MapRest(self, Tail(tokens), fuel,
                 ResolveWithContext(self, Head(tokens), FALSE, m, fuel))

\* A faulty loop over the property metadata: it ends at the first
\* dependency that is absent or failed.
StopAtAbsent(self, id, properties, fuel, dependency) ==
    IF ~dependency.ok /\ ~Head(properties).optional THEN dependency
    ELSE IF ~dependency.ok \/ dependency.val = Undefined
    THEN Return(dependency.m, id)
    ELSE InjectProperties(self, id, Tail(properties),
             [dependency.m EXCEPT !.heap[id].fields =
                  MapSet(@, Head(properties).key, dependency.val)],
             fuel)

\* One round of the loop over the property metadata: assign a resolved
\* dependency; catch the failure of an optional one, whatever the error.
SetProperty(self, id, properties, fuel, dependency) ==
    IF ~dependency.ok /\ ~Head(properties).optional THEN dependency
    ELSE InjectProperties(self, id, Tail(properties),
             IF ~dependency.ok
             THEN [dependency.m EXCEPT !.swallowed = @ \cup {dependency.err}]
             ELSE IF dependency.val # Undefined
             THEN [dependency.m EXCEPT !.heap[id].fields =
                       MapSet(@, Head(properties).key, dependency.val)]
             ELSE dependency.m,
             fuel)

\* Every property with inject metadata, in declaration order.
InjectProperties(self, id, properties, m, fuel) ==
    IF properties = <<>> THEN Return(m, id)
    ELSE SetProperty(self, id, properties, fuel,
             ResolveWithContext(self, Head(properties).token,
                                Head(properties).optional, m, fuel))

(* ------------------------- queries of Container ------------------------ *)

\* has(token) against a registry map (register's auto-binding asks it while
\* the map is being built).
RECURSIVE HasIn(_, _, _)
HasIn(c, token, regs) ==
    token \in DOMAIN regs[c] \/ (parent[c] # 0 /\ HasIn(parent[c], token, regs))

Has(c, token) == HasIn(c, token, registrations)

\* Array.from(map.keys()): the keys as an array.
RECURSIVE KeysOf(_)
KeysOf(keys) ==
    IF keys = {} THEN <<>>
    ELSE LET k == CHOOSE x \in keys : TRUE IN <<k>> \o KeysOf(keys \ {k})

\* A faulty de-duplication: the array as it is.
KeepDuplicates(tokens) == tokens

\* [...new Set(tokens)]: the first occurrence of each element, in order.
RECURSIVE RemoveDuplicates(_)
RemoveDuplicates(tokens) ==
    IF tokens = <<>> THEN <<>>
    ELSE LET init == RemoveDuplicates(SubSeq(tokens, 1, Len(tokens) - 1))
             x == tokens[Len(tokens)]
         IN  IF StackIncludes(init, x) THEN init ELSE Append(init, x)

RECURSIVE CollectServices(_)
CollectServices(c) ==
    KeysOf(DOMAIN registrations[c])
        \o (IF parent[c] # 0 THEN CollectServices(parent[c]) ELSE <<>>)

GetServices(c) == RemoveDuplicates(CollectServices(c))

GetParent(c) == parent[c]

(* ------------------------------ register ------------------------------- *)

ClassProvider(token, useClass, scope) ==
    [type |-> "class", token |-> token, useClass |-> useClass, useValue |-> Undefined,
     useFactory |-> Nil, deps |-> <<>>, useExisting |-> Nil, scope |-> scope,
     reenter |-> Nil]

ValueProvider(token, useValue) ==
    [type |-> "value", token |-> token, useClass |-> Nil, useValue |-> useValue,
     useFactory |-> Nil, deps |-> <<>>, useExisting |-> Nil, scope |-> Nil,
     reenter |-> Nil]

\* useFactory is a function that builds an object from its arguments;
\* reenter is the token its body resolves first (Nil: none).
FactoryProvider(token, deps, scope, reenter) ==
    [type |-> "factory", token |-> token, useClass |-> Nil, useValue |-> Undefined,
     useFactory |-> "function", deps |-> deps, useExisting |-> Nil, scope |-> scope,
     reenter |-> reenter]

ExistingProvider(token, useExisting) ==
    [type |-> "existing", token |-> token, useClass |-> Nil, useValue |-> Undefined,
     useFactory |-> Nil, deps |-> <<>>, useExisting |-> useExisting, scope |-> Nil,
     reenter |-> Nil]

ServiceOptions(scope, onActivation) ==
    [scope |-> scope, onActivation |-> onActivation, onDeactivation |-> Nil]

\* a || b || c || d on scope values (an unset scope is falsy)
FirstSet(a, b, c, d) ==
    IF a # Nil THEN a ELSE IF b # Nil THEN b ELSE IF c # Nil THEN c ELSE d

\* A validation that accepts every provider.
AcceptAll(provider) == Nil

\* The message of the InvalidProviderError validateProvider throws, or Nil.
ValidateProvider(provider) ==
    IF provider.type = "class" /\ provider.useClass \notin Classes
    THEN "ClassProvider must have a valid useClass constructor"
    ELSE IF provider.type = "factory" /\ provider.useFactory # "function"
    THEN "FactoryProvider must have a valid useFactory function"
    ELSE IF provider.type = "existing" /\ provider.useExisting = Nil
    THEN "ExistingProvider must have a valid useExisting token"
    ELSE Nil

ExtractDependencies(provider) ==
    IF provider.type = "class" THEN ClassMeta(provider.useClass).dependencies
    ELSE IF provider.type = "factory" THEN provider.deps
    ELSE <<>>

\* The ServiceRegistration register builds.  rid (the object's identity) and
\* owner (the container whose map holds it) stand for registeredAt.
NewRegistration(c, provider, opts, rid) ==
    [token |-> provider.token,
     provider |-> provider,
     options |-> [scope |-> FirstSet(opts.scope, provider.scope,
                                     options[c].defaultScope, SINGLETON),
                  onActivation |-> opts.onActivation,
                  onDeactivation |-> opts.onDeactivation],
     dependencies |-> ExtractDependencies(provider),
     rid |-> rid,
     owner |-> c]

\* A faulty set(): the registration lands in the root container's map.
StoreInRoot(c, registration, regs) ==
    [regs EXCEPT ![Root] = [x \in (DOMAIN @) \cup {registration.token} |->
                              IF x = registration.token THEN registration ELSE @[x]]]

\* this.registrations.set(provider.token, registration)
StoreRegistration(c, registration, regs) ==
    [regs EXCEPT ![c] = MapSet(@, registration.token, registration)]

RECURSIVE RegisterIn(_, _, _, _)
RECURSIVE AutoBindInjectableClass(_, _, _)

\* register after its checks: store, then auto-bind when the container has
\* autoBindInjectable and the provider is an injectable class (no
\* dependencies to bind otherwise).  st = [regs, rid].
RegisterIn(c, provider, opts, st) ==
    AutoBindInjectableClass(c,
        IF options[c].autoBindInjectable /\ provider.type = "class"
             /\ ClassMeta(provider.useClass).injectable
        THEN ClassMeta(provider.useClass).dependencies
        ELSE <<>>,
        [regs |-> StoreRegistration(c, NewRegistration(c, provider, opts, st.rid),
                                    st.regs),
         rid |-> st.rid + 1])

\* dependencies.forEach: a class-typed dependency nobody registers is
\* registered on this container as a class provider of itself.
AutoBindInjectableClass(c, dependencies, st) ==
    IF dependencies = <<>> THEN st
    ELSE AutoBindInjectableClass(c, Tail(dependencies),
             IF Head(dependencies) \in Classes /\ ~HasIn(c, Head(dependencies), st.regs)
             THEN RegisterIn(c, ClassProvider(Head(dependencies), Head(dependencies), Nil),
                             ServiceOptions(Nil, Nil), st)
             ELSE st)

(* ------------------------- unbind, clear, dispose ---------------------- *)

\* disposeInstance: nothing for a ServiceInstance already marked disposed;
\* else the pre-destroy methods of the object it holds, then the mark.  An
\* entry holding `undefined` has no constructor to read: TypeError.
\* (No registration of the model carries an onDeactivation hook.)
DisposeInstance(instance, hp) ==
    IF instance.disposed THEN [ok |-> TRUE, heap |-> hp, instance |-> instance]
    ELSE IF instance.instance = Undefined
    THEN [ok |-> FALSE, heap |-> hp, instance |-> instance]
    ELSE IF LifecycleThrows(hp, instance.instance, "preDestroy")
    THEN [ok |-> FALSE,
          heap |-> CallLifecycleMethods(hp, instance.instance, "preDestroy"),
          instance |-> instance]
    ELSE [ok |-> TRUE,
          heap |-> CallLifecycleMethods(hp, instance.instance, "preDestroy"),
          instance |-> [instance EXCEPT !.disposed = TRUE]]

\* One round of the loop over this.instances: acc = [ok, map, heap, log].
\* log is history: the objects whose pre-destroy methods the loop has called,
\* in the order of the calls.
DisposeEntry(k, acc, done) ==
    [ok |-> done.ok, map |-> [acc.map EXCEPT ![k] = done.instance], heap |-> done.heap,
     log |-> IF done.heap # acc.heap THEN Append(acc.log, acc.map[k].instance)
             ELSE acc.log]

\* for (const [token, instance] of this.instances) disposeInstance(instance, token)
\* The loop ends at the first error.
RECURSIVE DisposeInstances(_, _)
DisposeInstances(keys, acc) ==
    IF keys = <<>> \/ ~acc.ok THEN acc
    ELSE DisposeInstances(Tail(keys),
             DisposeEntry(Head(keys), acc,
                          DisposeInstance(acc.map[Head(keys)], acc.heap)))

\* The loop over all the instances of a Map, from the heap hp.
DisposeAll(map, hp) ==
    DisposeInstances(EntriesOf(map, DOMAIN map),
                     [ok |-> TRUE, map |-> map, heap |-> hp, log |-> <<>>])

\* The steps of a teardown, as the history of a dispose() call records them.
PreDestroyed(c, ids) == [i \in 1..Len(ids) |-> [op |-> "preDestroy", cont |-> c, obj |-> ids[i]]]

MapsCleared(c) == [op |-> "clear", cont |-> c, obj |-> Undefined]

\* dispose() on the state st = [ok, disposed, children, instances,
\* registrations, heap, log]; ok turns FALSE when the call ends in an error,
\* log is the history of the call.
RECURSIVE DisposeIn(_, _)
RECURSIVE DisposeChildren(_, _)
DisposeChildren(kids, st) ==
    IF kids = <<>> \/ ~st.ok THEN st
    ELSE DisposeChildren(Tail(kids), DisposeIn(Head(kids), st))

\* dispose() from the loop over the instances on: clear both maps and leave
\* the parent's children, unless the loop ended in an error.
DisposeMaps(c, st, done) ==
    IF ~done.ok
    THEN [st EXCEPT !.ok = FALSE, !.instances[c] = done.map, !.heap = done.heap,
                    !.log = @ \o PreDestroyed(c, done.log)]
    ELSE [st EXCEPT !.children = [k \in DOMAIN @ |->
                                     IF k = parent[c] THEN @[k] \ {c} ELSE @[k]],
                    !.heap = done.heap,
                    !.instances[c] = EmptyMap,
                    !.registrations[c] = EmptyMap,
                    !.log = Append(@ \o PreDestroyed(c, done.log), MapsCleared(c))]

\* dispose() once the loop over the children is over.
DisposeOwn(c, st) ==
    IF ~st.ok THEN st
    ELSE DisposeMaps(c, [st EXCEPT !.children[c] = {}],
                     DisposeAll(st.instances[c], st.heap))

\* A faulty dispose(): the container's own teardown before its children's.
DisposeParentFirst(c, st) ==
    IF st.disposed[c] THEN st
    ELSE DisposeChildren(Ascending(st.children[c]),
                         DisposeOwn(c, [st EXCEPT !.disposed[c] = TRUE]))

\* A faulty dispose(): it does not return early on a disposed container.
DisposeUnguarded(c, st) ==
    DisposeOwn(c, DisposeChildren(Ascending(st.children[c]),
                                  [st EXCEPT !.disposed[c] = TRUE]))

DisposeIn(c, st) ==
    IF st.disposed[c] THEN st
    ELSE DisposeOwn(c, DisposeChildren(Ascending(st.children[c]),
                                       [st EXCEPT !.disposed[c] = TRUE]))

(* ------------------------------- inputs -------------------------------- *)

\* Partial<ContainerOptions> arguments: none given, or the relaxed options of
\* ContainerFactory.createTestContainer.
ContainerOptionChoices ==
    { EmptyMap,
      [autoBindInjectable |-> FALSE, throwOnMissingDependencies |-> FALSE] }

\* The options the root container is constructed with: none given, or those
\* of ContainerFactory.createPrototypeContainer.
RootOptionChoices ==
    { EmptyMap, [defaultScope |-> PROTOTYPE] }

\* { ...DEFAULT_CONTAINER_OPTIONS, ...options }
MergeOptions(defaults, given) ==
    [f \in DOMAIN defaults |-> IF f \in DOMAIN given THEN given[f] ELSE defaults[f]]

\* The providers the program registers; their user code does not call back
\* into the container.
Providers ==
    { ClassProvider("A", "A", Nil),             \* A -> B (constructor, property), A -> D (optional property)
      ClassProvider("B", "B", Nil),             \* B -> D (optional property)
      ValueProvider("D", TheValue),
      ClassProvider("D", "F", Nil),             \* its post-construct method throws
      FactoryProvider("A", <<>>, Nil, Nil),
      FactoryProvider("A", <<>>, TRANSIENT, Nil),
      FactoryProvider("B", <<"A">>, Nil, Nil),  \* closes A -> B -> A
      FactoryProvider("D", <<"B">>, Nil, Nil),  \* closes B -> D -> B
      ExistingProvider("D", "A"),
      ExistingProvider("B", "D"),
      ExistingProvider("D", "B"),
      ExistingProvider("D", "D") }

\* Factories of A whose body calls container.resolve(u) before building.
ReentrantProviders ==
    {FactoryProvider("A", <<>>, Nil, u) : u \in {"A", "B"}}

ServiceOptionChoices ==
    {ServiceOptions(s, Nil) : s \in {Nil, PROTOTYPE}}

(* -------------------------------- calls -------------------------------- *)
\* What each public method returns or throws when called in the current
\* state, and the state it leaves.

\* resolve(token)
ResolveCall(c, token) ==
    ResolveIn(c, token, NewContext(registrations, instances, heap, booted))

\* resolve(token) on a container that is not disposed, with the
\* ResolutionContext of the call (its stack and cache) as the call leaves it.
ResolveContext(c, token) ==
    ResolveWithContext(c, token, FALSE,
                       NewContext(registrations, instances, heap, booted), StackLimit)

\* A faulty catch: every error is thrown again.
Rethrow(r) == r

\* tryResolve's catch: ServiceNotFoundError becomes `undefined`.
CatchNotFound(r) ==
    IF ~r.ok /\ r.err = "ServiceNotFoundError" THEN Return(r.m, Undefined) ELSE r

\* tryResolve(token)
TryResolveCall(c, token) == CatchNotFound(ResolveCall(c, token))

\* register(provider, options) on the registries st = [regs, rid]; m is st
\* afterwards.
RegisterOn(c, provider, opts, st) ==
    IF ThrowIfDisposed(c) THEN Throw(st, "ContainerError", <<>>)
    ELSE IF provider.token = Nil \/ ValidateProvider(provider) # Nil
    THEN Throw(st, "InvalidProviderError", <<>>)
    ELSE Return(RegisterIn(c, provider, opts, st), c)

\* register(provider, options) on the registries as they are.
RegisterCall(c, provider, opts) ==
    RegisterOn(c, provider, opts, [regs |-> registrations, rid |-> nextRid])

\* register(provider) without its second argument: options = {}.
NoOptions == ServiceOptions(Nil, Nil)

\* The steps of the fluent builder that call register on the container
\* bind(token) captured.  to(), toSelf() and toFactory() only build the next
\* builder object.
\* BindingBuilder.toValue(value)
ToValue(c, token, value) == RegisterCall(c, ValueProvider(token, value), NoOptions)

\* BindingBuilder.toExisting(token)
ToExisting(c, token, existing) ==
    RegisterCall(c, ExistingProvider(token, existing), NoOptions)

\* BindingOptions.inScope(scope) after to(implementation); inSingletonScope,
\* inPrototypeScope and inTransientScope are this call with their scope.
InScope(c, token, implementation, scope) ==
    RegisterCall(c, ClassProvider(token, implementation, Nil), ServiceOptions(scope, Nil))

\* BindingOptions.withOptions(options) after to(implementation)
WithOptions(c, token, implementation, opts) ==
    RegisterCall(c, ClassProvider(token, implementation, Nil), opts)

\* BindingFactoryOptions.withDependencies(...deps) after toFactory(factory)
WithDependencies(c, token, deps) ==
    RegisterCall(c, FactoryProvider(token, deps, Nil, Nil), NoOptions)

\* BindingFactoryOptions.inScope(scope) after toFactory(factory); the three
\* named scope steps are this call with their scope.
FactoryInScope(c, token, scope) ==
    RegisterCall(c, FactoryProvider(token, <<>>, scope, Nil), NoOptions)

\* BindingFactoryOptions.withOptions(options) after toFactory(factory)
FactoryWithOptions(c, token, opts) ==
    RegisterCall(c, FactoryProvider(token, <<>>, Nil, Nil), opts)

\* The outcomes of every registering builder step on c.
BuilderSteps(c) ==
    UNION { {ToValue(c, t, TheValue)}
            \cup {ToExisting(c, t, u) : u \in Tokens}
            \cup {InScope(c, t, k, s) : k \in Classes,
                                        s \in {SINGLETON, PROTOTYPE, TRANSIENT}}
            \cup {WithOptions(c, t, k, o) : k \in Classes, o \in ServiceOptionChoices}
            \cup {WithDependencies(c, t, <<u>>) : u \in Tokens}
            \cup {FactoryInScope(c, t, s) : s \in {SINGLETON, PROTOTYPE, TRANSIENT}}
            \cup {FactoryWithOptions(c, t, o) : o \in ServiceOptionChoices}
          : t \in Tokens }

\* Providers validateProvider (or the token check before it) rejects: a class
\* provider whose useClass is absent or not a function, a factory provider
\* whose useFactory is absent or not a function, an alias without a target,
\* a provider without a token.
MalformedProviders ==
    { ClassProvider("A", Nil, Nil),
      ClassProvider("D", "D", Nil),             \* useClass: 'D', a string
      [FactoryProvider("B", <<"A">>, Nil, Nil) EXCEPT !.useFactory = Nil],
      [FactoryProvider("A", <<>>, Nil, Nil) EXCEPT !.useFactory = "object"],
      ExistingProvider("D", Nil),
      ValueProvider(Nil, TheValue) }

(* ---------------------------- fluent builder --------------------------- *)

\* No provider held (BindingBuilder and BindingFinalized hold none).
NoProvider ==
    [type |-> Nil, token |-> Nil, useClass |-> Nil, useValue |-> Undefined,
     useFactory |-> Nil, deps |-> <<>>, useExisting |-> Nil, scope |-> Nil,
     reenter |-> Nil]

\* One method call of a chain: the method's name and its argument (tok: the
\* implementation of to, the factory of toFactory, the target of toExisting;
\* opts: the options of withOptions, the scope of inScope; deps: the tokens
\* of withDependencies).
Call(op, tok, opts, deps) == [op |-> op, tok |-> tok, opts |-> opts, deps |-> deps]

\* bind(token): a BindingBuilder on the container as it is.  A builder b is
\* [kind, token, provider, ok, err, st, calls]: the class of the object the
\* chain holds, what it captured, the exception the chain ended with, the
\* registries st = [regs, rid] and (history) how many times the chain called
\* container.register.
BindCall(c, token) ==
    [kind |-> "BindingBuilder", token |-> token, provider |-> NoProvider,
     ok |-> TRUE, err |-> Nil,
     st |-> [regs |-> registrations, rid |-> nextRid], calls |-> 0]

\* The chain ends with an exception.
ChainThrow(b, err) == [b EXCEPT !.ok = FALSE, !.err = err]

\* this.container.register(...); return new BindingFinalized()
Finalize(b, r) ==
    IF r.ok
    THEN [b EXCEPT !.kind = "BindingFinalized", !.provider = NoProvider,
                   !.st = r.m, !.calls = @ + 1]
    ELSE [ChainThrow(b, r.err) EXCEPT !.calls = @ + 1]

\* The scope a scope-selection method registers with.
ScopeOfCall(call) ==
    CASE call.op = "inSingletonScope" -> SINGLETON
      [] call.op = "inPrototypeScope" -> PROTOTYPE
      [] call.op = "inTransientScope" -> TRANSIENT
      [] OTHER -> call.opts.scope

ScopeMethods == {"inSingletonScope", "inPrototypeScope", "inTransientScope", "inScope"}

\* BindingBuilder.to(implementation)
To(b, implementation) ==
    [b EXCEPT !.kind = "BindingOptions",
              !.provider = ClassProvider(b.token, implementation, Nil)]

\* BindingBuilder.toSelf(): typeof token !== 'function' for a string token.
ToSelf(b) ==
    IF b.token \notin Classes THEN ChainThrow(b, "InvalidProviderError")
    ELSE To(b, b.token)

\* BindingBuilder.toFactory(factory)
ToFactory(b, factory) ==
    [b EXCEPT !.kind = "BindingFactoryOptions",
              !.provider = [FactoryProvider(b.token, <<>>, Nil, Nil)
                               EXCEPT !.useFactory = factory]]

\* A method call on a BindingBuilder.
BindingBuilder(c, b, call) ==
    CASE call.op = "to" -> To(b, call.tok)
      [] call.op = "toSelf" -> ToSelf(b)
      [] call.op = "toFactory" -> ToFactory(b, call.tok)
      [] call.op = "toValue" ->
           Finalize(b, RegisterOn(c, ValueProvider(b.token, TheValue), NoOptions, b.st))
      [] call.op = "toExisting" ->
           Finalize(b, RegisterOn(c, ExistingProvider(b.token, call.tok), NoOptions, b.st))
      [] OTHER -> ChainThrow(b, "TypeError")

\* A method call on a BindingOptions.
BindingOptions(c, b, call) ==
    IF call.op \in ScopeMethods
    THEN Finalize(b, RegisterOn(c, b.provider, ServiceOptions(ScopeOfCall(call), Nil), b.st))
    ELSE IF call.op = "withOptions"
    THEN Finalize(b, RegisterOn(c, b.provider, call.opts, b.st))
    ELSE ChainThrow(b, "TypeError")

\* A method call on a BindingFactoryOptions.
BindingFactoryOptions(c, b, call) ==
    IF call.op = "withDependencies"
    THEN Finalize(b, RegisterOn(c, [b.provider EXCEPT !.deps = call.deps], NoOptions, b.st))
    ELSE IF call.op \in ScopeMethods
    THEN Finalize(b, RegisterOn(c, [b.provider EXCEPT !.scope = ScopeOfCall(call)],
                                NoOptions, b.st))
    ELSE IF call.op = "withOptions"
    THEN Finalize(b, RegisterOn(c, b.provider, call.opts, b.st))
    ELSE ChainThrow(b, "TypeError")

\* A method call on a BindingFinalized: the class has no methods.
BindingFinalized(c, b, call) == ChainThrow(b, "TypeError")

\* One method call on the object the chain holds; nothing after an exception.
Invoke(c, b, call) ==
    IF ~b.ok THEN b
    ELSE CASE b.kind = "BindingBuilder" -> BindingBuilder(c, b, call)
           [] b.kind = "BindingOptions" -> BindingOptions(c, b, call)
           [] b.kind = "BindingFactoryOptions" -> BindingFactoryOptions(c, b, call)
           [] OTHER -> BindingFinalized(c, b, call)

RECURSIVE InvokeAll(_, _, _)
InvokeAll(c, b, calls) ==
    IF calls = <<>> THEN b
    ELSE InvokeAll(c, Invoke(c, b, Head(calls)), Tail(calls))

\* The statement container.bind(token).m1(..).m2(..)...
BindChain(c, token, calls) == InvokeAll(c, BindCall(c, token), calls)

\* The statements the program runs: bind(token) and the chain on it.
Statement(token, calls) == [token |-> token, calls |-> calls]

Chains ==
    { Statement("D", <<Call("toValue", Nil, NoOptions, <<>>)>>),
      Statement("D", <<Call("toExisting", "A", NoOptions, <<>>)>>),
      Statement("B", <<Call("toSelf", Nil, NoOptions, <<>>)>>),
      Statement("D", <<Call("toSelf", Nil, NoOptions, <<>>)>>),
      Statement("B", <<Call("to", "B", NoOptions, <<>>)>>),
      Statement("B", <<Call("toSelf", Nil, NoOptions, <<>>),
                       Call("inPrototypeScope", Nil, NoOptions, <<>>)>>),
      Statement("A", <<Call("toFactory", "function", NoOptions, <<>>),
                       Call("inTransientScope", Nil, NoOptions, <<>>)>>),
      Statement("B", <<Call("toFactory", "function", NoOptions, <<>>),
                       Call("withDependencies", Nil, NoOptions, <<"A">>)>>),
      Statement("B", <<Call("toFactory", "function", NoOptions, <<>>),
                       Call("withDependencies", Nil, NoOptions, <<"A">>),
                       Call("inSingletonScope", Nil, NoOptions, <<>>)>>) }

\* unbind from the return of disposeInstance (`done`) on.
Unbound(c, token, st, done) ==
    IF ~done.ok THEN Throw(st, "TypeError", <<>>)
    ELSE Return([instances |-> [instances EXCEPT ![c] = DeleteEntry(@, token)],
                 registrations |-> [registrations EXCEPT ![c] = MapDelete(@, token)],
                 heap |-> done.heap],
                token \in DOMAIN registrations[c])

\* unbind(token): m = [instances, registrations, heap] afterwards; val is the
\* boolean unbind returns.
UnbindCall(c, token) ==
    LET st == [instances |-> instances, registrations |-> registrations, heap |-> heap] IN
    IF ThrowIfDisposed(c) THEN Throw(st, "ContainerError", <<>>)
    ELSE Unbound(c, token, st,
             IF token \in DOMAIN instances[c]
             THEN DisposeInstance(instances[c][token], heap)
             ELSE [ok |-> TRUE, heap |-> heap, instance |-> NoInst])

\* clear from the end of its loop (`done`) on.
Cleared(c, done) ==
    IF ~done.ok
    THEN Throw([instances |-> [instances EXCEPT ![c] = done.map],
                registrations |-> registrations,
                heap |-> done.heap], "TypeError", <<>>)
    ELSE Return([instances |-> [instances EXCEPT ![c] = EmptyMap],
                 registrations |-> [registrations EXCEPT ![c] = EmptyMap],
                 heap |-> done.heap],
                Undefined)

\* clear()
ClearCall(c) ==
    IF ThrowIfDisposed(c)
    THEN Throw([instances |-> instances, registrations |-> registrations,
                heap |-> heap], "ContainerError", <<>>)
    ELSE Cleared(c, DisposeAll(instances[c], heap))

\* createChild(options): m = [containers, parent, children, options]
\* afterwards; val is the new container.
CreateChildCall(c, given) ==
    LET st == [containers |-> containers, parent |-> parent,
               children |-> children, options |-> options]
        child == Cardinality(containers) + 1
    IN
    IF ThrowIfDisposed(c) THEN Throw(st, "ContainerError", <<>>)
    ELSE Return([containers |-> containers \cup {child},
                 parent |-> [parent EXCEPT ![child] = c],
                 children |-> [children EXCEPT ![c] = @ \cup {child}],
                 options |-> [options EXCEPT ![child] =
                                 MergeOptions(DEFAULT_CONTAINER_OPTIONS, given)]],
                child)

\* dispose(): the state the call leaves, whether it ended in an error or not.
DisposeCall(c) ==
    DisposeIn(c, [ok |-> TRUE, disposed |-> disposed, children |-> children,
                  instances |-> instances, registrations |-> registrations,
                  heap |-> heap, log |-> <<>>])

(* ------------------------------- actions ------------------------------- *)

\* The heap stays within the bounds of the model.
(* ------------------------- express controllers ------------------------- *)

\* The controller instances a program constructs.
MaxInstances == 3

\* OrderController (router.test.ts), UserController (the example
\* application) and a class without @Controller.
ControllerClasses == {"OrderController", "UserController", "PlainController"}

MiddlewareFunctions ==
    {"middleware1", "middleware2", "loggingMiddleware", "authMiddleware"}

\* A path string is the sequence of the segments that follow each of its
\* slashes: "/api/order" is <<"api", "order">>, "/users/" is <<"users", "">>
\* and "/" is <<"">>.  String concatenation is \o.

\* replace(/\/+/g, '/') followed by the removal of a trailing slash, "/"
\* itself excepted.
CollapseSlashes(path) ==
    IF SelectSeq(path, LAMBDA segment : segment # "") = <<>>
    THEN <<"">>
    ELSE SelectSeq(path, LAMBDA segment : segment # "")

\* path = ('/' + path).replace(/\/+/g, '/').replace(/\/$/, '') || '/'
NormalizePath(path) == CollapseSlashes(<<"">> \o path)

combinePaths(basePath, routePath) == CollapseSlashes(basePath \o routePath)

\* What a route decorator captures: createRouteDecorator(method)(options).
createRouteDecorator(method, path, middlewares) ==
    [kind |-> "route", method |-> method, path |-> NormalizePath(path),
     middlewares |-> middlewares]

Get(path, middlewares) == createRouteDecorator("GET", path, middlewares)

Post(path, middlewares) == createRouteDecorator("POST", path, middlewares)

\* What @Use(...middlewares) captures.
Use(middlewares) ==
    [kind |-> "use", method |-> Nil, path |-> <<"">>, middlewares |-> middlewares]

\* The metadata @Controller stores when the class is defined; a class
\* without the decorator has none.
Controller(path, middlewares) ==
    [defined |-> TRUE, path |-> NormalizePath(path), middlewares |-> middlewares]

\* The classes as their source declares them: the class decorator, and each
\* decorated method with its decorators from top to bottom.
ControllerDeclaration(C) ==
    CASE C = "OrderController" ->
         [controller |-> Controller(<<"", "api", "order">>, <<"middleware1">>),
          methods |-> << [propertyKey |-> "test",
                           decorators |->
                               << Get(<<"", "test">>, <<"middleware2">>) >>] >>]
      [] C = "UserController" ->
         [controller |-> Controller(<<"", "users">>, <<"loggingMiddleware">>),
          methods |-> << [propertyKey |-> "getUsers",
                           decorators |-> << Get(<<>>, <<>>) >>],
                         [propertyKey |-> "createUser",
                           decorators |->
                               << Post(<<>>, <<>>), Use(<<"authMiddleware">>) >>] >>]
      [] OTHER ->
         [controller |-> [defined |-> FALSE, path |-> <<"">>, middlewares |-> <<>>],
          methods |-> << [propertyKey |-> "index",
                           decorators |-> << Get(<<>>, <<>>) >>] >>]

getControllerMetadata(C) == ControllerDeclaration(C).controller

\* The ROUTES entry of the metadata storage; a class without one reads [].
getRouteMetadata(storage, C) == storage[C]

setRouteMetadata(storage, C, metadata) == [storage EXCEPT ![C] = metadata]

addRouteMetadata(storage, C, metadata) ==
    setRouteMetadata(storage, C, getRouteMetadata(storage, C) \o <<metadata>>)

\* The initializer a route decorator adds: it appends the route.
RouteInitializer(storage, C, propertyKey, decorator) ==
    addRouteMetadata(storage, C,
        [path |-> decorator.path, method |-> decorator.method,
         middlewares |-> decorator.middlewares, propertyKey |-> propertyKey])

\* routes.map(...) of the initializer @Use adds: the middlewares go in front
\* of those of every route recorded for the method so far.
UpdatedRoutes(routes, propertyKey, middlewares) ==
    [i \in 1..Len(routes) |->
        IF routes[i].propertyKey = propertyKey
        THEN [routes[i] EXCEPT !.middlewares = middlewares \o @]
        ELSE routes[i]]

UseInitializer(storage, C, propertyKey, decorator) ==
    IF Len(getRouteMetadata(storage, C)) > 0
    THEN setRouteMetadata(storage, C,
             UpdatedRoutes(getRouteMetadata(storage, C), propertyKey,
                           decorator.middlewares))
    ELSE storage

\* The initializers of the decorated methods, in the order they were
\* added: the decorators of a method are applied from the one nearest the
\* method upwards, and each adds its initializer when it is applied.
RECURSIVE InstanceInitializers(_)
InstanceInitializers(methods) ==
    IF methods = <<>> THEN <<>>
    ELSE [i \in 1..Len(Head(methods).decorators) |->
             [propertyKey |-> Head(methods).propertyKey,
              decorator |-> Head(methods).decorators[
                                Len(Head(methods).decorators) + 1 - i]]]
         \o InstanceInitializers(Tail(methods))

RECURSIVE RunInitializers(_, _, _)
RunInitializers(storage, C, initializers) ==
    IF initializers = <<>> THEN storage
    ELSE RunInitializers(
             IF Head(initializers).decorator.kind = "route"
             THEN RouteInitializer(storage, C, Head(initializers).propertyKey,
                                   Head(initializers).decorator)
             ELSE UseInitializer(storage, C, Head(initializers).propertyKey,
                                 Head(initializers).decorator),
             C, Tail(initializers))

\* new C(): the initializers of the decorated methods run, in the order
\* they were added, with this.constructor = C.
NewController(storage, C) ==
    RunInitializers(storage, C, InstanceInitializers(ControllerDeclaration(C).methods))

\* createMethodHandler(controllerInstance, propertyKey)
createMethodHandler(C, instance, propertyKey) ==
    [kind |-> "handler", name |-> propertyKey, controller |-> C, instance |-> instance]

\* router[method](fullPath, ...middlewares) for one route of the metadata.
RouteOf(C, instance, controllerMetadata, route) ==
    [method |-> IF route.method = "GET" THEN "get" ELSE "post",
     path |-> combinePaths(controllerMetadata.path, route.path),
     stack |-> [i \in 1..Len(controllerMetadata.middlewares \o route.middlewares) |->
                    [kind |-> "middleware",
                     name |-> (controllerMetadata.middlewares \o route.middlewares)[i],
                     controller |-> Nil, instance |-> 0]]
               \o <<createMethodHandler(C, instance, route.propertyKey)>>]

\* registerController: the metadata is read, then the instance is
\* constructed, then each route that was read is registered.
registerController(st, C) ==
    IF ~getControllerMetadata(C).defined THEN st
    ELSE [router |-> st.router \o
                     [i \in 1..Len(getRouteMetadata(st.storage, C)) |->
                         RouteOf(C, st.constructed + 1, getControllerMetadata(C),
                                 getRouteMetadata(st.storage, C)[i])],
          storage |-> NewController(st.storage, C),
          constructed |-> st.constructed + 1]

RECURSIVE RegisterEach(_, _)
RegisterEach(st, controllers) ==
    IF controllers = <<>> THEN st
    ELSE RegisterEach(registerController(st, Head(controllers)), Tail(controllers))

\* createRouter(controllers): a new Router with every controller registered.
createRouter(storage, count, controllers) ==
    RegisterEach([router |-> <<>>, storage |-> storage, constructed |-> count],
                 controllers)

\* The response of a request nothing has handled yet.
NoResponse ==
    [matched |-> 0, ran |-> <<>>, headersSent |-> FALSE, sent |-> 0, calls |-> <<>>]

\* A response goes out on res.
Sent(res) == [res EXCEPT !.headersSent = TRUE, !.sent = @ + 1]

\* result.send(res) or res.json(result): the body is serialized, which
\* throws for a value JSON cannot hold, and then sent.  The call is inside
\* the try block of the handler.
SendResult(res, call, behaviour) ==
    IF behaviour.serializable
    THEN Sent([res EXCEPT !.calls = @ \o <<call>>])
    ELSE [res EXCEPT !.calls = @ \o <<call, "next(error)">>]

\* A handler that looks neither at res.headersSent nor at what it is about
\* to send twice.
SendRegardless(res, behaviour) ==
    IF behaviour.throws
    THEN [res EXCEPT !.calls = @ \o <<"next(error)">>]
    ELSE IF behaviour.result = "BaseResponse"
    THEN SendResult(res, "result.send(res)", behaviour)
    ELSE SendResult(res, "res.json(result)", behaviour)

\* The rest of the generated handler, once the controller method has
\* returned or thrown; res is the response as the method left it.
AfterMethod(res, behaviour) ==
    IF behaviour.throws
    THEN [res EXCEPT !.calls = @ \o <<"next(error)">>]
    ELSE IF res.headersSent THEN res
    ELSE IF behaviour.result = "BaseResponse"
    THEN SendResult(res, "result.send(res)", behaviour)
    ELSE IF behaviour.result # "undefined"
    THEN SendResult(res, "res.json(result)", behaviour)
    ELSE res

\* The function createMethodHandler returns: it awaits the method, which
\* may send a response on res itself.
MethodHandler(res, behaviour) ==
    AfterMethod(IF behaviour.responds THEN Sent(res) ELSE res, behaviour)

\* express runs the functions of a route one after another: a middleware
\* either calls next() or ends the request with a response of its own.
RECURSIVE RunStack(_, _, _, _, _)
RunStack(stack, i, stops, behaviour, res) ==
    IF i > Len(stack) THEN res
    ELSE IF stack[i].kind = "handler"
    THEN MethodHandler([res EXCEPT !.ran = @ \o <<stack[i].name>>], behaviour)
    ELSE IF stack[i].name \in stops
    THEN Sent([res EXCEPT !.ran = @ \o <<stack[i].name>>])
    ELSE RunStack(stack, i + 1, stops, behaviour,
                  [res EXCEPT !.ran = @ \o <<stack[i].name>>])

\* The first route of the router registered for the method and path.
Match(rt, request) ==
    IF \E i \in 1..Len(rt) : rt[i].method = request.method /\ rt[i].path = request.path
    THEN CHOOSE i \in 1..Len(rt) :
            /\ rt[i].method = request.method /\ rt[i].path = request.path
            /\ \A j \in 1..(i - 1) :
                  ~(rt[j].method = request.method /\ rt[j].path = request.path)
    ELSE 0

\* A request through the router.
Handle(rt, request, stops, behaviour) ==
    IF Match(rt, request) = 0 THEN NoResponse
    ELSE RunStack(rt[Match(rt, request)].stack, 1, stops, behaviour,
                  [NoResponse EXCEPT !.matched = Match(rt, request)])

Requests ==
    { [method |-> "get", path |-> <<"api", "order", "test">>],
      [method |-> "get", path |-> <<"users">>],
      [method |-> "post", path |-> <<"users">>] }

\* What a controller method does with a request: it may send a response
\* itself, and it returns undefined, a BaseResponse or another value, or
\* throws (its promise rejects).
Behaviours ==
    [throws : BOOLEAN, responds : BOOLEAN,
     result : {"undefined", "BaseResponse", "object"}, serializable : BOOLEAN]

ControllerLists ==
    {<<C>> : C \in ControllerClasses}
    \cup {list \in {<<C, D>> : C \in ControllerClasses, D \in ControllerClasses} :
              list[1] # list[2]}

WithinBounds(hp) ==
    /\ Len(hp) <= MaxObj
    /\ \A i \in 1..Len(hp) : hp[i].pre <= MaxPre

Init ==
    /\ containers = {Root}
    /\ parent = [c \in CIds |-> 0]
    /\ children = [c \in CIds |-> {}]
    /\ \E given \in RootOptionChoices :
          options = [c \in CIds |-> IF c = Root
                                    THEN MergeOptions(DEFAULT_CONTAINER_OPTIONS, given)
                                    ELSE DEFAULT_CONTAINER_OPTIONS]
    /\ disposed = [c \in CIds |-> FALSE]
    /\ registrations = [c \in CIds |-> EmptyMap]
    /\ instances = [c \in CIds |-> EmptyMap]
    /\ heap = <<NewObject("value", Nil,
                           [rid |-> 0, token |-> Nil, owner |-> 0,
                            options |-> [scope |-> Nil]],
                           0, <<>>)>>
    /\ nextRid = 1
    /\ booted = FALSE
    /\ metadataStorage = [C \in ControllerClasses |-> <<>>]
    /\ constructed = 0
    /\ router = <<>>
    /\ response = NoResponse

\* The state a call of register leaves.
Registered(r) ==
    /\ registrations' = r.m.regs
    /\ nextRid' = r.m.rid

Register(c, provider, opts) ==
    /\ c \in containers
    /\ nextRid <= MaxRegs
    /\ Registered(RegisterCall(c, provider, opts))
    /\ UNCHANGED <<expressVars, containers, parent, children, options, disposed, instances,
                   heap, booted>>

\* The state a builder chain leaves: what it registered stays registered
\* when a later method of the chain throws.
Bound(b) ==
    /\ registrations' = b.st.regs
    /\ nextRid' = b.st.rid

Bind(c, token, calls) ==
    /\ c \in containers
    /\ nextRid <= MaxRegs
    /\ Bound(BindChain(c, token, calls))
    /\ UNCHANGED <<expressVars, containers, parent, children, options, disposed, instances,
                   heap, booted>>

\* The state a call of resolve or tryResolve leaves.
Resolved(r) ==
    /\ WithinBounds(r.m.heap)
    /\ instances' = r.m.instances
    /\ heap' = r.m.heap
    /\ booted' = r.m.booted

Resolve(c, token) ==
    /\ c \in containers
    /\ Resolved(ResolveCall(c, token))
    /\ UNCHANGED <<expressVars, containers, parent, children, options, disposed, registrations,
                   nextRid>>

TryResolve(c, token) ==
    /\ c \in containers
    /\ Resolved(TryResolveCall(c, token))
    /\ UNCHANGED <<expressVars, containers, parent, children, options, disposed, registrations,
                   nextRid>>

\* The state a call of unbind or clear leaves.
Removed(r) ==
    /\ WithinBounds(r.m.heap)
    /\ instances' = r.m.instances
    /\ registrations' = r.m.registrations
    /\ heap' = r.m.heap

Unbind(c, token) ==
    /\ c \in containers
    /\ Removed(UnbindCall(c, token))
    /\ UNCHANGED <<expressVars, containers, parent, children, options, disposed, nextRid, booted>>

Clear(c) ==
    /\ c \in containers
    /\ Removed(ClearCall(c))
    /\ UNCHANGED <<expressVars, containers, parent, children, options, disposed, nextRid, booted>>

\* createChild(options): new Container(options, this)
Created(r) ==
    /\ containers' = r.m.containers
    /\ parent' = r.m.parent
    /\ children' = r.m.children
    /\ options' = r.m.options

CreateChild(c, given) ==
    /\ c \in containers
    /\ Cardinality(containers) < MaxContainers
    /\ Created(CreateChildCall(c, given))
    /\ UNCHANGED <<expressVars, disposed, registrations, instances, heap, nextRid, booted>>

\* The state a call of dispose leaves.
Disposed(st) ==
    /\ WithinBounds(st.heap)
    /\ disposed' = st.disposed
    /\ children' = st.children
    /\ instances' = st.instances
    /\ registrations' = st.registrations
    /\ heap' = st.heap

Dispose(c) ==
    /\ c \in containers
    /\ Disposed(DisposeCall(c))
    /\ UNCHANGED <<expressVars, containers, parent, options, nextRid, booted>>

Next ==
    \/ \E c \in CIds, p \in Providers \cup MalformedProviders,
          o \in ServiceOptionChoices : Register(c, p, o)
    \/ \E c \in CIds, s \in Chains : Bind(c, s.token, s.calls)
    \/ \E c \in CIds, t \in Tokens : Resolve(c, t)
    \/ \E c \in CIds, t \in Tokens : TryResolve(c, t)
    \/ \E c \in CIds, t \in Tokens : Unbind(c, t)
    \/ \E c \in CIds : Clear(c)
    \/ \E c \in CIds, g \in ContainerOptionChoices : CreateChild(c, g)
    \/ \E c \in CIds : Dispose(c)

Spec == Init /\ [][Next]_vars

\* The same program with user code that may call back into the container
\* while it is being run by a resolution.
NextReentrant ==
    \/ \E c \in CIds, p \in Providers \cup MalformedProviders \cup ReentrantProviders,
          o \in ServiceOptionChoices : Register(c, p, o)
    \/ \E c \in CIds, s \in Chains : Bind(c, s.token, s.calls)
    \/ \E c \in CIds, t \in Tokens : Resolve(c, t)
    \/ \E c \in CIds, t \in Tokens : TryResolve(c, t)
    \/ \E c \in CIds, t \in Tokens : Unbind(c, t)
    \/ \E c \in CIds : Clear(c)
    \/ \E c \in CIds, g \in ContainerOptionChoices : CreateChild(c, g)
    \/ \E c \in CIds : Dispose(c)

SpecReentrant == Init /\ [][NextReentrant]_vars

\* The providers of a program whose services have async lifecycle methods.
AsyncProviders ==
    { ClassProvider("D", "L", Nil),
      ClassProvider("B", "B", Nil),             \* B -> D (optional property)
      ClassProvider("A", "A", Nil) }

\* The promise an async lifecycle method of object o returned settles: the
\* rest of the method's body has run.
Settle(o, method) ==
    /\ o \in 1..Len(heap)
    /\ method \in heap[o].awaiting
    /\ heap' = [heap EXCEPT ![o].awaiting = @ \ {method}]
    /\ UNCHANGED <<expressVars, containers, parent, children, options, disposed, registrations,
                   instances, nextRid, booted>>

\* The same container in a program with async lifecycle methods, whose
\* promises settle between the program's calls.
NextAsync ==
    \/ \E c \in CIds, p \in AsyncProviders, o \in ServiceOptionChoices : Register(c, p, o)
    \/ \E c \in CIds, t \in Tokens : Resolve(c, t)
    \/ \E c \in CIds, t \in Tokens : TryResolve(c, t)
    \/ \E c \in CIds, t \in Tokens : Unbind(c, t)
    \/ \E c \in CIds : Clear(c)
    \/ \E c \in CIds, g \in ContainerOptionChoices : CreateChild(c, g)
    \/ \E c \in CIds : Dispose(c)
    \/ \E o \in 1..MaxObj, method \in AsyncMethods : Settle(o, method)

SpecAsync == Init /\ [][NextAsync]_vars

(* --------------------- the express controller router ------------------- *)

\* new C() in the program.
Instantiate(C) ==
    /\ constructed < MaxInstances
    /\ metadataStorage' = NewController(metadataStorage, C)
    /\ constructed' = constructed + 1
    /\ UNCHANGED <<containerVars, router, response>>

CreatedRouter(st) ==
    /\ st.constructed <= MaxInstances
    /\ router' = st.router
    /\ metadataStorage' = st.storage
    /\ constructed' = st.constructed
    /\ response' = NoResponse
    /\ UNCHANGED containerVars

\* router = createRouter(controllers); app.use(router) on a new application.
CreateRouter(controllers) ==
    CreatedRouter(createRouter(metadataStorage, constructed, controllers))

\* A request to the application.
Request(request, stops, behaviour) ==
    /\ response' = Handle(router, request, stops, behaviour)
    /\ UNCHANGED <<containerVars, metadataStorage, constructed, router>>

NextRouter ==
    \/ \E C \in ControllerClasses : Instantiate(C)
    \/ \E controllers \in ControllerLists : CreateRouter(controllers)
    \/ \E request \in Requests, stops \in SUBSET MiddlewareFunctions,
          behaviour \in Behaviours : Request(request, stops, behaviour)

SpecRouter == Init /\ [][NextRouter]_vars

(* ------------------------------ properties ----------------------------- *)

\* A container that exists and is not disposed.
Live(c) == c \in containers /\ ~disposed[c]

\* The proper ancestors of a container.
RECURSIVE Ancestors(_)
Ancestors(c) ==
    IF parent[c] = 0 THEN {} ELSE {parent[c]} \cup Ancestors(parent[c])

\* The chain c, parent(c), grandparent(c), ...
RECURSIVE Chain(_)
Chain(c) == IF parent[c] = 0 THEN <<c>> ELSE <<c>> \o Chain(parent[c])

\* The registration of token on the first container of the chain of c that
\* registers it (NoReg: none does).
Nearest(c, token) ==
    LET chain == Chain(c)
        holders == {i \in 1..Len(chain) : token \in DOMAIN registrations[chain[i]]}
    IN  IF holders = {} THEN NoReg
        ELSE registrations[chain[CHOOSE i \in holders : \A j \in holders : i <= j]][token]

\* resolve(token) on c, called right after the call that left `first`.
ResolveAfter(c, token, first) ==
    ResolveIn(c, token, NewContext(first.m.registrations, first.m.instances,
                                   first.m.heap, first.m.booted))

\* The objects the call that left r built.
Built(r) == (Len(heap) + 1)..Len(r.m.heap)

\* The objects the call that left r built by the registration rid.
BuiltBy(rid, r) == {i \in Built(r) : r.m.heap[i].rid = rid}

\* A call that left the registries, the instance caches and the heap as
\* they were.
Untouched(r) ==
    /\ r.m.registrations = registrations
    /\ r.m.instances = instances
    /\ r.m.heap = heap

(* C1 *)

SameAgain(first, second) ==
    /\ second.ok
    /\ second.val = first.val
    /\ second.m.heap = first.m.heap

IdenticalAgain(c, token, first) ==
    first.ok => SameAgain(first, ResolveAfter(c, token, first))

\* C1: for a token registered with SINGLETON scope on container c, a
\* resolve(token) on c and the next resolve(token) on c (nothing in between)
\* return the identical object, and the second call builds nothing: the
\* provider ran for the first call only.
C1_SingletonIdentity ==
    \A c \in containers, t \in Tokens :
        (Live(c) /\ t \in DOMAIN registrations[c]
                 /\ registrations[c][t].options.scope = SINGLETON)
        => IdenticalAgain(c, t, ResolveCall(c, t))

\* A container caches the object its own SINGLETON class or factory
\* registration built through it.
C1_Witness ==
    \E c \in containers, t \in Tokens :
        /\ Live(c)
        /\ t \in DOMAIN registrations[c]
        /\ registrations[c][t].options.scope = SINGLETON
        /\ registrations[c][t].provider.type \in {"class", "factory"}
        /\ t \in DOMAIN instances[c]
        /\ instances[c][t].instance \in 2..Len(heap)
        /\ heap[instances[c][t].instance].rid = registrations[c][t].rid

(* C2 *)

CachedAtOwner(owner, token, r) ==
    r.ok => /\ token \in DOMAIN r.m.instances[owner]
            /\ r.m.instances[owner][token].instance = r.val
            /\ SameAgain(r, ResolveAfter(owner, token, r))

\* C2: a SINGLETON registered on container P and resolved through a
\* descendant that does not shadow it is cached at P and is the object
\* P.resolve returns afterwards, without a second construction.
C2_SharedAcrossHierarchy ==
    \A d \in containers, t \in Tokens :
        (Live(d) /\ FindRegistration(d, t, registrations) # NoReg
                 /\ FindRegistration(d, t, registrations).owner # d
                 /\ FindRegistration(d, t, registrations).options.scope = SINGLETON)
        => CachedAtOwner(FindRegistration(d, t, registrations).owner, t, ResolveCall(d, t))

(* C3 *)

Differs(first, second) == second.ok => second.val # first.val

DistinctAgain(c, token, first) ==
    first.ok => Differs(first, ResolveAfter(c, token, first))

\* C3 as stated: for every token registered with PROTOTYPE or TRANSIENT
\* scope, two successive top-level resolve calls return distinct objects.
C3_DistinctEveryProvider ==
    \A c \in containers, t \in Tokens :
        (Live(c) /\ FindRegistration(c, t, registrations) # NoReg
                 /\ FindRegistration(c, t, registrations).options.scope \in {PROTOTYPE, TRANSIENT})
        => DistinctAgain(c, t, ResolveCall(c, t))

FreshBy(rid, base, r) ==
    /\ r.val > base
    /\ r.val <= Len(r.m.heap)
    /\ r.m.heap[r.val].rid = rid
    /\ Cardinality({i \in (base + 1)..Len(r.m.heap) : r.m.heap[i].rid = rid}) = 1

FreshTwice(rid, first, second) ==
    second.ok => /\ FreshBy(rid, Len(heap), first)
                 /\ FreshBy(rid, Len(first.m.heap), second)
                 /\ second.val # first.val

FreshAgain(c, token, rid, first) ==
    first.ok => FreshTwice(rid, first, ResolveAfter(c, token, first))

\* C3, amended: for every token registered with PROTOTYPE or TRANSIENT scope
\* through a class or factory provider, two successive top-level resolve
\* calls return distinct objects, each built by that provider during its own
\* call, the provider running exactly once per call.
C3_DistinctPerCall ==
    \A c \in containers, t \in Tokens :
        (Live(c) /\ FindRegistration(c, t, registrations) # NoReg
                 /\ FindRegistration(c, t, registrations).options.scope \in {PROTOTYPE, TRANSIENT}
                 /\ FindRegistration(c, t, registrations).provider.type \in {"class", "factory"})
        => FreshAgain(c, t, FindRegistration(c, t, registrations).rid, ResolveCall(c, t))

\* Two resolve calls have each built an object from one PROTOTYPE or
\* TRANSIENT class or factory registration.
C3_Witness ==
    \E c \in containers, t \in Tokens :
        /\ Live(c)
        /\ t \in DOMAIN registrations[c]
        /\ registrations[c][t].options.scope \in {PROTOTYPE, TRANSIENT}
        /\ registrations[c][t].provider.type \in {"class", "factory"}
        /\ \E i, j \in 2..Len(heap) :
              /\ i # j
              /\ heap[i].rid = registrations[c][t].rid
              /\ heap[j].rid = registrations[c][t].rid
              /\ heap[i].token = t
              /\ heap[j].token = t

(* C4 *)

AtMostOneBuilt(rid, r) == r.ok => Cardinality(BuiltBy(rid, r)) <= 1

\* C4: for a SINGLETON token on container c, one resolve call constructs and
\* hands out at most one instance of it, also when the user code run during
\* the construction calls c.resolve again before the instance is committed.
C4_NoDuplicateSingleton ==
    \A c \in containers, t \in Tokens :
        (Live(c) /\ t \in DOMAIN registrations[c]
                 /\ registrations[c][t].options.scope = SINGLETON)
        => AtMostOneBuilt(registrations[c][t].rid, ResolveCall(c, t))

(* C5 *)

NothingNewCached(c, tokens, r) ==
    \A i \in 1..Len(tokens) :
        tokens[i] \in DOMAIN r.m.instances[c]
        => /\ tokens[i] \in DOMAIN instances[c]
           /\ r.m.instances[c][tokens[i]] = instances[c][tokens[i]]

CycleRaised(c, r) ==
    r.m.cycle # <<>>
    => /\ ~r.ok
       /\ r.err = "CircularDependencyError"
       /\ r.chain = r.m.cycle
       /\ NothingNewCached(c, r.m.cycle, r)

\* C5: a resolve whose traversal meets a cycle raises CircularDependencyError
\* with the chain of the in-flight tokens in traversal order, ending with the
\* repeated token, and caches no instance of a token of the cycle.
C5_CycleRaises ==
    \A c \in containers, t \in Tokens :
        Live(c) => CycleRaised(c, ResolveCall(c, t))

(* C6 *)

Terminates(r) == ~r.m.overflow

\* C6: every top-level resolve and tryResolve terminates: the nesting of
\* resolveWithContext frames never exceeds the number of tokens, whatever
\* the registrations (cycles through constructor, factory and property
\* dependencies, self-aliases and alias cycles included).
C6_ResolveTerminates ==
    \A c \in containers, t \in Tokens :
        Terminates(ResolveCall(c, t)) /\ Terminates(TryResolveCall(c, t))

CycleThroughAlias(c, r) ==
    /\ ~r.ok
    /\ r.err = "CircularDependencyError"
    /\ \E i \in 1..Len(r.chain) :
          /\ FindRegistration(c, r.chain[i], registrations) # NoReg
          /\ FindRegistration(c, r.chain[i], registrations).provider.type = "existing"

\* A resolve stops at a cycle that runs through an alias.
C6_Witness ==
    \E c \in containers, t \in Tokens :
        Live(c) /\ CycleThroughAlias(c, ResolveCall(c, t))

(* C7 *)

RaisesNotFound(r) == ~r.ok /\ r.err = "ServiceNotFoundError" /\ Untouched(r)

ReturnsUndefined(r) == r.ok /\ r.val = Undefined /\ Untouched(r)

\* C7 as stated: resolving a token registered neither on the container nor
\* on an ancestor raises ServiceNotFoundError from resolve and returns
\* undefined from tryResolve; neither call changes registry or cache.
C7_MissingAlwaysRaises ==
    \A c \in containers, t \in Tokens :
        (Live(c) /\ ~Has(c, t))
        => /\ RaisesNotFound(ResolveCall(c, t))
           /\ ReturnsUndefined(TryResolveCall(c, t))

\* C7, amended: for a token registered neither on the container nor on an
\* ancestor, resolve raises ServiceNotFoundError when the container's
\* throwOnMissingDependencies option is true (the default) and returns
\* undefined when it is false; tryResolve returns undefined either way;
\* neither call changes the instance cache or builds anything (and neither
\* writes the registry).
C7_MissingByOption ==
    \A c \in containers, t \in Tokens :
        (Live(c) /\ ~Has(c, t))
        => /\ IF options[c].throwOnMissingDependencies
              THEN RaisesNotFound(ResolveCall(c, t))
              ELSE ReturnsUndefined(ResolveCall(c, t))
           /\ ReturnsUndefined(TryResolveCall(c, t))

\* A container that throws on missing dependencies, holds registrations and
\* is asked for a token nobody registers.
C7_Witness ==
    \E c \in containers, t \in Tokens :
        /\ Live(c)
        /\ options[c].throwOnMissingDependencies
        /\ DOMAIN registrations[c] # {}
        /\ ~Has(c, t)
        /\ RaisesNotFound(ResolveCall(c, t))

(* C8 *)

\* What a resolve that started on the heap hp returned or threw, a newly
\* built object counted from the end of that heap.
Outcome(hp, r) ==
    [ok |-> r.ok, err |-> r.err, chain |-> r.chain,
     val |-> IF r.val > Len(hp) THEN Len(hp) - r.val ELSE r.val]

\* resolve(token) on container a in the state with the given maps and heap.
ResolveOn(a, token, regs, inst, hp) ==
    Outcome(hp, ResolveIn(a, token, NewContext(regs, inst, hp, booted)))

\* What container a's resolve returns for each token in the state with the
\* given maps and heap.
ViewOf(a, regs, inst, hp) == [t \in Tokens |-> ResolveOn(a, t, regs, inst, hp)]

\* Container a's registry is as it is now, and its resolve returns `view`.
SameFor(a, view, regs, inst, hp) ==
    /\ regs[a] = registrations[a]
    /\ ViewOf(a, regs, inst, hp) = view

AfterRegister(a, view, r) == SameFor(a, view, r.m.regs, instances, heap)

AfterRemoval(a, view, r) ==
    SameFor(a, view, r.m.registrations, r.m.instances, r.m.heap)

\* Whatever container c registers, unbinds or clears next, ancestor a keeps
\* its registry and its `view`.
ChildMutationsKeep(c, a, view) ==
    /\ \A p \in Providers, o \in ServiceOptionChoices :
          AfterRegister(a, view, RegisterCall(c, p, o))
    /\ \A t \in Tokens : AfterRemoval(a, view, UnbindCall(c, t))
    /\ AfterRemoval(a, view, ClearCall(c))

\* C8: a register, re-register, unbind or clear on a child container changes
\* no ancestor's registry and does not change what an ancestor's resolve
\* returns for any token, whatever was registered and resolved before.
C8_NoLeakUpward ==
    \A c \in containers : \A a \in Ancestors(c) :
        Live(c) => ChildMutationsKeep(c, a, ViewOf(a, registrations, instances, heap))

\* A child holds its own registration of a token its parent registers too,
\* and the parent has resolved the token.
C8_Witness ==
    \E c \in containers, t \in Tokens :
        /\ Live(c)
        /\ parent[c] # 0
        /\ t \in DOMAIN registrations[c]
        /\ t \in DOMAIN registrations[parent[c]]
        /\ t \in DOMAIN instances[parent[c]]

(* C9 *)

NotFromFarther(c, token, r) ==
    (r.ok /\ r.val \in 1..Len(r.m.heap))
    => r.m.heap[r.val].owner \notin Ancestors(Nearest(c, token).owner)

\* C9: when c resolves a token, the registration used is the one of the
\* nearest container of the chain c, parent(c), ... that registers it: the
\* object returned for a class, factory or value registration is never one
\* that the registration of a farther container built.
C9_NearestWins ==
    \A c \in containers, t \in Tokens :
        (Live(c) /\ Nearest(c, t) # NoReg
                 /\ Nearest(c, t).provider.type # "existing")
        => NotFromFarther(c, t, ResolveCall(c, t))

(* C10 *)

\* C10: has(token) is true exactly when the container or one of its
\* ancestors registers the token, and getServices() lists exactly the tokens
\* has is true for, each once.
C10_HasAndServices ==
    \A c \in containers :
        /\ \A t \in Tokens :
              Has(c, t) <=> \E a \in {c} \cup Ancestors(c) : t \in DOMAIN registrations[a]
        /\ {GetServices(c)[i] : i \in 1..Len(GetServices(c))}
              = {t \in Tokens : Has(c, t)}
        /\ Len(GetServices(c)) = Cardinality({t \in Tokens : Has(c, t)})

\* A child and its parent register the same token, and the parent another.
C10_Witness ==
    \E c \in containers, t, u \in Tokens :
        /\ parent[c] # 0
        /\ t # u
        /\ t \in DOMAIN registrations[c]
        /\ t \in DOMAIN registrations[parent[c]]
        /\ u \in DOMAIN registrations[parent[c]]
        /\ u \notin DOMAIN registrations[c]

(* C11 *)

\* A call that threw ContainerError.
Refused(r) == ~r.ok /\ r.err = "ContainerError"

\* Every call on c that the container refuses once disposed, with the state
\* each one leaves.
Closed(c) ==
    /\ \A t \in Tokens :
          /\ Refused(ResolveCall(c, t)) /\ Untouched(ResolveCall(c, t))
          /\ ResolveCall(c, t).m.booted = booted
          /\ Refused(TryResolveCall(c, t)) /\ Untouched(TryResolveCall(c, t))
          /\ Refused(UnbindCall(c, t)) /\ Untouched(UnbindCall(c, t))
    /\ \A p \in Providers \cup ReentrantProviders, o \in ServiceOptionChoices :
          /\ Refused(RegisterCall(c, p, o))
          /\ RegisterCall(c, p, o).m = [regs |-> registrations, rid |-> nextRid]
    /\ \A r \in BuilderSteps(c) :
          Refused(r) /\ r.m = [regs |-> registrations, rid |-> nextRid]
    /\ Refused(ClearCall(c)) /\ Untouched(ClearCall(c))
    /\ \A g \in ContainerOptionChoices :
          /\ Refused(CreateChildCall(c, g))
          /\ CreateChildCall(c, g).m = [containers |-> containers, parent |-> parent,
                                        children |-> children, options |-> options]

\* C11: once dispose() has been called on a container, every resolve,
\* tryResolve, register, unbind, clear and createChild call on it, and every
\* builder step that registers on it, throws ContainerError and leaves the
\* state as it was.
C11_DisposedIsClosed ==
    \A c \in containers : disposed[c] => Closed(c)

\* A disposed child whose live parent still holds registrations: a resolve
\* that were let through would find them.
C11_Witness ==
    \E c \in containers :
        /\ disposed[c]
        /\ parent[c] # 0
        /\ ~disposed[parent[c]]
        /\ registrations[parent[c]] # EmptyMap
        /\ instances[parent[c]] # EmptyMap

(* C12 *)

\* The objects the singleton cache of c holds.
Held(c) == {instances[c][t].instance : t \in DOMAIN instances[c]} \ {Undefined}

\* The calls of pre-destroy methods on object o between the heaps hp and after.
PreDestroyCalls(o, hp, after) == after[o].pre - hp[o].pre

\* Each pre-destroy method of every object c's cache held has been called
\* once when the dispose() call that left st is over.
PreDestroyedOnce(c, st) ==
    \A o \in Held(c) :
        PreDestroyCalls(o, heap, st.heap) = Len(LifecycleMethods(heap, o, "preDestroy"))

\* C12: for every object held in the singleton cache of a container when
\* dispose() starts on it, each pre-destroy method of the object is called
\* exactly once over the whole disposal, never skipped and never twice.
C12_PreDestroyOnce ==
    \A c \in containers : Live(c) => PreDestroyedOnce(c, DisposeCall(c))

(* C13 *)

\* dispose() on c, called right after the dispose() call that left `first`.
DisposeAgain(c, first) == DisposeIn(c, [first EXCEPT !.ok = TRUE, !.log = <<>>])

\* The second call returned, called no pre-destroy method and left every
\* container as the first call had left it.
SameAfter(first, second) ==
    /\ second.ok
    /\ \A i \in 1..Len(second.log) : second.log[i].op # "preDestroy"
    /\ second.heap = first.heap
    /\ second.disposed = first.disposed
    /\ second.children = first.children
    /\ second.instances = first.instances
    /\ second.registrations = first.registrations

Idempotent(c, first) ==
    /\ first.disposed[c]
    /\ SameAfter(first, DisposeAgain(c, first))
    /\ SameAfter(first, DisposeAgain(c, DisposeAgain(c, first)))

\* C13: a dispose() call on a container that dispose() was called on before
\* returns without an error, calls no pre-destroy method again and leaves
\* the container, its maps and its parent's children as the first call left
\* them; so do the calls after it.
C13_DisposeIdempotent ==
    \A c \in containers : Idempotent(c, DisposeCall(c))

\* A disposed container whose teardown called a pre-destroy method, and one
\* whose teardown ended in an error and left its cache filled.
C13_Witness ==
    \E c \in containers :
        /\ disposed[c]
        /\ \/ \E o \in 1..Len(heap) : heap[o].cont = c /\ heap[o].pre > 0
           \/ instances[c] # EmptyMap

(* C14 *)

\* The containers created, transitively, from c by createChild.
Descendants(c) == {d \in containers : c \in Ancestors(d)}

\* The objects in c's cache that dispose() has pre-destroy methods to call
\* on: their entry is not marked disposed and their class declares some.
Pending(c) ==
    {instances[c][t].instance :
        t \in {u \in DOMAIN instances[c] :
                  /\ ~instances[c][u].disposed
                  /\ LifecycleMethods(heap, instances[c][u].instance, "preDestroy") # <<>>}}

\* The places of the history log where a pre-destroy method was called for
\* an object cached in one of the containers cs.
HookSteps(log, cs) ==
    {i \in 1..Len(log) : log[i].op = "preDestroy" /\ log[i].cont \in cs}

\* The places where the maps of c were cleared.
ClearSteps(log, c) ==
    {i \in 1..Len(log) : log[i].op = "clear" /\ log[i].cont = c}

BottomUp(c, log) ==
    /\ \A i \in HookSteps(log, Descendants(c)), j \in HookSteps(log, {c}) : i < j
    /\ \A i \in HookSteps(log, {c}), j \in ClearSteps(log, c) : i < j
    /\ HookSteps(log, {c}) # {}
          => \A d \in Descendants(c) :
                Live(d) => \A o \in Pending(d) :
                              \E i \in HookSteps(log, {d}) : log[i].obj = o
    /\ ClearSteps(log, c) # {}
          => \A o \in Pending(c) : \E i \in HookSteps(log, {c}) : log[i].obj = o

\* C14: during dispose() on c, every pre-destroy method of a singleton
\* cached in a descendant of c is called before any pre-destroy method of a
\* singleton cached in c itself, and the registry and the cache of c are
\* cleared only after the pre-destroy methods of c's own singletons have
\* been called.
C14_BottomUpTeardown ==
    \A c \in containers : Live(c) => BottomUp(c, DisposeCall(c).log)

\* A live container and a live child each cache an object with a
\* pre-destroy method, and dispose() on the parent tears both down.
C14_Witness ==
    \E c \in containers :
        /\ Live(c)
        /\ Pending(c) # {}
        /\ \E d \in Descendants(c) : Live(d) /\ Pending(d) # {}
        /\ DisposeCall(c).ok
        /\ HookSteps(DisposeCall(c).log, {c}) # {}
        /\ HookSteps(DisposeCall(c).log, Descendants(c)) # {}

(* C15 *)

\* What a completed dispose() on c is said to leave: every descendant
\* disposed, c's registry, cache and children empty, c out of its parent's
\* children.
TornDown(c, st) ==
    /\ st.disposed[c]
    /\ \A d \in Descendants(c) : st.disposed[d]
    /\ st.registrations[c] = EmptyMap
    /\ st.instances[c] = EmptyMap
    /\ st.children[c] = {}
    /\ parent[c] # 0 => c \notin st.children[parent[c]]

\* C15: when a dispose() call on c has returned without an error, every
\* container created from c, directly or transitively, is disposed, the
\* registry, the instance cache and the children of c are empty, and c is no
\* member of its parent's children.
C15_CascadeAndFinalState ==
    \A c \in containers : DisposeCall(c).ok => TornDown(c, DisposeCall(c))

(* C16 *)

\* An instance of a class whose post-construct methods have all returned,
\* called when every property the instance has was already set.
Initialised(hp, o) ==
    hp[o].kind = "class"
    => /\ hp[o].post = Len(ClassMeta(hp[o].cls).postConstruct)
       /\ hp[o].seen = DOMAIN hp[o].fields

\* The objects somebody can see: those the singleton caches hold and those
\* handed to a dependent as a constructor argument or a property.
Observed(inst, hp) ==
    (UNION {{inst[c][t].instance : t \in DOMAIN inst[c]} : c \in CIds}
     \cup UNION {{hp[o].args[i] : i \in 1..Len(hp[o].args)} : o \in 1..Len(hp)}
     \cup UNION {{hp[o].fields[k] : k \in DOMAIN hp[o].fields} : o \in 1..Len(hp)})
    \ {Undefined}

\* The call that left r showed nobody an instance that is not initialised:
\* not through a singleton cache, the per-call cache, a dependent or its
\* return value.
OnlyInitialised(r) ==
    /\ \A o \in Observed(r.m.instances, r.m.heap) : Initialised(r.m.heap, o)
    /\ \A t \in DOMAIN r.m.cache :
          r.m.cache[t] # Undefined => Initialised(r.m.heap, r.m.cache[t])
    /\ (r.ok /\ r.val # Undefined) => Initialised(r.m.heap, r.val)

\* C16: the post-construct methods of an instance a class provider builds are
\* called after its constructor and after all its property injections, and
\* before the instance is stored in a singleton cache or the per-call cache,
\* handed to a dependent or returned by resolve: nobody observes an instance
\* whose post-construct methods have not run.
C16_PostConstructOrdering ==
    /\ \A o \in Observed(instances, heap) : Initialised(heap, o)
    /\ \A c \in containers, t \in Tokens :
          Live(c) => OnlyInitialised(ResolveContext(c, t))

\* A resolve returns a new instance of A that it stored in the singleton
\* cache, with a constructor argument, an injected property and the
\* post-construct method called after both.
C16_Witness ==
    \E c \in containers :
        /\ ResolveCall(c, "A").ok
        /\ ResolveCall(c, "A").val \in Built(ResolveCall(c, "A"))
        /\ ResolveCall(c, "A").m.heap[ResolveCall(c, "A").val].cls = "A"
        /\ ResolveCall(c, "A").m.heap[ResolveCall(c, "A").val].seen = {"b", "d"}
        /\ ResolveCall(c, "A").m.heap[ResolveCall(c, "A").val].post = 1
        /\ "A" \in DOMAIN ResolveCall(c, "A").m.instances[c]

(* C17 *)

\* The instances the call that left r built and whose post-construct method
\* threw: the loop over the methods did not reach its end.
FailedPostConstruct(r) ==
    {o \in Built(r) :
        /\ LifecycleThrows(r.m.heap, o, "postConstruct")
        /\ r.m.heap[o].post < Len(LifecycleMethods(r.m.heap, o, "postConstruct"))}

\* The next resolve of the token builds a new instance with the same
\* registration.
BuiltAfresh(o, first, second) ==
    \E n \in (Len(first.m.heap) + 1)..Len(second.m.heap) :
        second.m.heap[n].rid = first.m.heap[o].rid

PostConstructFailure(c, r) ==
    \A o \in FailedPostConstruct(r) :
        /\ ~r.ok
        /\ r.err = "Error"
        /\ o \notin Observed(r.m.instances, r.m.heap)
        /\ BuiltAfresh(o, r, ResolveAfter(c, r.m.heap[o].token, r))

\* C17: when a post-construct method of an instance throws during resolve,
\* the error reaches the caller of resolve, the instance is stored in no
\* singleton cache and handed to nobody, and the next resolve of its token
\* constructs a new instance.
C17_PostConstructFailure ==
    \A c \in containers, t \in Tokens :
        Live(c) => PostConstructFailure(c, ResolveCall(c, t))

(* C18 *)

\* The properties of object o that are declared optional and name a token
\* no container of the chain of the resolving container registers.
MissingOptional(hp, o) ==
    {i \in 1..Len(ClassMeta(hp[o].cls).properties) :
        /\ ClassMeta(hp[o].cls).properties[i].optional
        /\ FindRegistration(hp[o].cont, ClassMeta(hp[o].cls).properties[i].token,
                            registrations) = NoReg}

\* Property p of object o holds the dependency the call resolved for its
\* token: the one the constructor received for the same token, when it
\* received one.
Injected(hp, o, p) ==
    \A k \in 1..Len(ClassMeta(hp[o].cls).dependencies) :
        (ClassMeta(hp[o].cls).dependencies[k] = p.token /\ hp[o].args[k] # Undefined)
        => (p.key \in DOMAIN hp[o].fields /\ hp[o].fields[p.key] = hp[o].args[k])

\* Object o came out of createClassInstance complete: the properties that
\* are optional and unregistered are absent, the others are injected, the
\* post-construct methods have run after them, and the resolution of o's
\* token ended with o.
CompleteWithout(r, o, missing) ==
    /\ \A i \in 1..Len(ClassMeta(r.m.heap[o].cls).properties) :
          IF i \in missing
          THEN ClassMeta(r.m.heap[o].cls).properties[i].key \notin DOMAIN r.m.heap[o].fields
          ELSE Injected(r.m.heap, o, ClassMeta(r.m.heap[o].cls).properties[i])
    /\ r.m.heap[o].post = Len(ClassMeta(r.m.heap[o].cls).postConstruct)
    /\ r.m.heap[o].seen = DOMAIN r.m.heap[o].fields
    /\ r.m.heap[o].token \in DOMAIN r.m.cache
    /\ r.m.cache[r.m.heap[o].token] = o

OptionalMissing(r) ==
    \A o \in Built(r) :
        (r.m.heap[o].kind = "class" /\ MissingOptional(r.m.heap, o) # {})
        => CompleteWithout(r, o, MissingOptional(r.m.heap, o))

\* C18: when a property declared optional names a token without a
\* registration, the construction of the owning instance succeeds, the
\* property is left absent, every other declared property of the instance is
\* still injected and the post-construct methods still run.
C18_OptionalMissing ==
    \A c \in containers, t \in Tokens :
        Live(c) => OptionalMissing(ResolveContext(c, t))

\* resolve(A) on a container that throws on missing dependencies and whose
\* chain does not register D: the new A has no d, has b, and init() has run.
C18_Witness ==
    \E c \in containers :
        /\ Live(c)
        /\ options[c].throwOnMissingDependencies
        /\ FindRegistration(c, "D", registrations) = NoReg
        /\ ResolveCall(c, "A").ok
        /\ ResolveCall(c, "A").val \in Built(ResolveCall(c, "A"))
        /\ ResolveCall(c, "A").m.heap[ResolveCall(c, "A").val].cls = "A"
        /\ DOMAIN ResolveCall(c, "A").m.heap[ResolveCall(c, "A").val].fields = {"b"}
        /\ ResolveCall(c, "A").m.heap[ResolveCall(c, "A").val].post = 1

(* C19 *)

\* The only error the catch around an optional property kept from the
\* caller is ServiceNotFoundError.
OnlyNotFoundSwallowed(r) == r.m.swallowed \subseteq {"ServiceNotFoundError"}

\* C19: while an optional property is resolved, only "not found" becomes an
\* absent value: a CircularDependencyError, or an error thrown by a
\* constructor, a factory or a post-construct method, propagates to the
\* caller of resolve.
C19_OnlyNotFoundSwallowed ==
    \A c \in containers, t \in Tokens :
        Live(c) => OnlyNotFoundSwallowed(ResolveCall(c, t))

(* C20 *)

\* The tokens of a chain that the resolving container resolves through an
\* alias ('existing') provider.
AliasTokens(c, chain) ==
    {chain[i] : i \in {j \in 1..Len(chain) :
                          /\ Nearest(c, chain[j]) # NoReg
                          /\ Nearest(c, chain[j]).provider.type = "existing"}}

NoAliasInChain(c, r) ==
    /\ AliasTokens(c, r.m.cycle) = {}
    /\ (~r.ok /\ r.err = "CircularDependencyError") => AliasTokens(c, r.chain) = {}

\* C20: the token of an alias provider is never on the resolution stack, so
\* the chain a CircularDependencyError carries names no alias token.
C20_AliasesOffTheStack ==
    \A c \in containers, t \in Tokens :
        Live(c) => NoAliasInChain(c, ResolveCall(c, t))

(* C21 *)

\* The token an alias chain starting at `token` ends in for container c: the
\* first token of the chain whose nearest registration is no alias (Nil when
\* the chain does not end within the tokens there are).
RECURSIVE AliasTarget(_, _, _)
AliasTarget(c, token, steps) ==
    IF Nearest(c, token) = NoReg \/ Nearest(c, token).provider.type # "existing"
    THEN token
    ELSE IF steps = 0 THEN Nil
    ELSE AliasTarget(c, Nearest(c, token).provider.useExisting, steps - 1)

\* Token a is an alias on c whose chain ends in a token registered SINGLETON.
AliasOfSingleton(c, a) ==
    /\ Nearest(c, a) # NoReg
    /\ Nearest(c, a).provider.type = "existing"
    /\ AliasTarget(c, a, Cardinality(Tokens)) # Nil
    /\ Nearest(c, AliasTarget(c, a, Cardinality(Tokens))) # NoReg
    /\ IsSingleton(Nearest(c, AliasTarget(c, a, Cardinality(Tokens))).options.scope)

\* Two resolves in a row return the identical object (nothing is said of a
\* first resolve that throws).
SameObject(first, second) ==
    first.ok => (second.ok /\ second.val = first.val)

SameEitherOrder(c, a, t) ==
    /\ SameObject(ResolveCall(c, a), ResolveAfter(c, t, ResolveCall(c, a)))
    /\ SameObject(ResolveCall(c, t), ResolveAfter(c, a, ResolveCall(c, t)))

\* C21: for an alias token registered with useExisting = T, directly or
\* through a chain of aliases, where T is registered SINGLETON, resolve of
\* the alias and resolve of T return the identical object, whichever of the
\* two is called first.
C21_AliasIdentity ==
    \A c \in containers, a \in Tokens :
        (Live(c) /\ AliasOfSingleton(c, a))
        => SameEitherOrder(c, a, AliasTarget(c, a, Cardinality(Tokens)))

(* C22 *)

\* The objects a PROTOTYPE or TRANSIENT registration built.
BuiltUncached(hp) == {o \in 1..Len(hp) : hp[o].scope \in {PROTOTYPE, TRANSIENT}}

\* C22: no container's instance cache holds an object that a PROTOTYPE or
\* TRANSIENT registration built, under the token of that registration or
\* under the token of an alias that points to it.
C22_UncachedScopes ==
    \A c \in containers : Held(c) \cap BuiltUncached(heap) = {}

(* C23 *)

\* The registration with serial number rid, in the registries as they are.
RegistrationOf(rid) ==
    CHOOSE g \in UNION {{registrations[c][t] : t \in DOMAIN registrations[c]} : c \in CIds} :
        g.rid = rid

\* The tokens object o received as constructor or factory arguments, in order.
ArgumentTokens(hp, o) ==
    IF hp[o].kind = "class" THEN ClassMeta(hp[o].cls).dependencies
    ELSE RegistrationOf(hp[o].rid).provider.deps

\* The properties object o declares for injection.
PropertiesOf(hp, o) ==
    IF hp[o].kind = "class" THEN ClassMeta(hp[o].cls).properties ELSE <<>>

\* The <<token, object>> pairs object o received as constructor or factory
\* arguments and as injected properties.
Received(r, o) ==
    {<<ArgumentTokens(r.m.heap, o)[k], r.m.heap[o].args[k]>> :
        k \in 1..Len(r.m.heap[o].args)}
    \cup {<<PropertiesOf(r.m.heap, o)[i].token,
            r.m.heap[o].fields[PropertiesOf(r.m.heap, o)[i].key]>> :
            i \in {j \in 1..Len(PropertiesOf(r.m.heap, o)) :
                      PropertiesOf(r.m.heap, o)[j].key \in DOMAIN r.m.heap[o].fields}}

\* Within the call that left r, all dependents of a token received the same
\* object and no registration built more than one.
Diamond(r) ==
    /\ \A o1 \in Built(r), o2 \in Built(r) :
          \A p1 \in Received(r, o1), p2 \in Received(r, o2) :
              p1[1] = p2[1] => p1[2] = p2[2]
    /\ \A o \in Built(r) : BuiltBy(r.m.heap[o].rid, r) = {o}

\* C23: within one top-level resolve, when the same token is reached along
\* two dependency paths, both dependents receive the same object and the
\* token's provider (constructor or factory, and hooks) runs once in that
\* call, whatever the scope of the token.
C23_DiamondConsistency ==
    \A c \in containers, t \in Tokens : Live(c) => Diamond(ResolveContext(c, t))

(* C24 *)

\* A registering call that raised InvalidProviderError and left the registry
\* (st = [regs, rid]) as it is.
RejectedUnchanged(err, st) ==
    /\ err = "InvalidProviderError"
    /\ st.regs = registrations
    /\ st.rid = nextRid

\* A call of register that was rejected.
RegisterRejected(r) == ~r.ok /\ RejectedUnchanged(r.err, r.m)

\* A builder chain that was rejected.
ChainRejected(b) == ~b.ok /\ RejectedUnchanged(b.err, b.st)

\* Builder chains that carry a malformed provider to their registering call.
MalformedChains ==
    { <<Call("to", Nil, NoOptions, <<>>), Call("inSingletonScope", Nil, NoOptions, <<>>)>>,
      <<Call("to", "D", NoOptions, <<>>), Call("withOptions", Nil, NoOptions, <<>>)>>,
      <<Call("toFactory", Nil, NoOptions, <<>>),
        Call("withDependencies", Nil, NoOptions, <<"A">>)>>,
      <<Call("toFactory", "object", NoOptions, <<>>),
        Call("inPrototypeScope", Nil, NoOptions, <<>>)>>,
      <<Call("toExisting", Nil, NoOptions, <<>>)>> }

\* C24: on a live container, registering a class provider without a
\* constructible type, a factory provider without a callable or an alias
\* without a target, through register or through a builder chain, and
\* toSelf() on a token that is not a class, each raise InvalidProviderError
\* at that call and leave the container's registry unchanged.
C24_ValidationFailsFast ==
    \A c \in containers :
        Live(c) =>
            /\ \A p \in MalformedProviders, o \in ServiceOptionChoices :
                  RegisterRejected(RegisterCall(c, p, o))
            /\ \A t \in Tokens, calls \in MalformedChains :
                  ChainRejected(BindChain(c, t, calls))
            /\ \A t \in Tokens \ Classes :
                  /\ ChainRejected(BindChain(c, t, <<Call("toSelf", Nil, NoOptions, <<>>)>>))
                  /\ BindChain(c, t, <<Call("toSelf", Nil, NoOptions, <<>>)>>).calls = 0

\* A live container that registers "A" and "D" and rejects a class provider
\* without a type for "A", an alias without a target for "D" and toSelf() on
\* "D".
C24_Witness ==
    \E c \in containers :
        /\ Live(c)
        /\ {"A", "D"} \subseteq DOMAIN registrations[c]
        /\ RegisterRejected(RegisterCall(c, ClassProvider("A", Nil, Nil), NoOptions))
        /\ RegisterRejected(RegisterCall(c, ExistingProvider("D", Nil), NoOptions))
        /\ ChainRejected(BindChain(c, "D", <<Call("toSelf", Nil, NoOptions, <<>>)>>))

(* C25 *)

\* The methods that are to accumulate the provider description only.
IntermediateMethods == {"to", "toFactory", "toSelf", "withDependencies"}

\* A chain that ended without an exception called register once.
RegisteredOnce(b) == b.ok => b.calls = 1

\* No register call was made up to and including an intermediate method.
AccumulatesOnly(c, s) ==
    \A k \in 1..Len(s.calls) :
        s.calls[k].op \in IntermediateMethods
        => BindChain(c, s.token, SubSeq(s.calls, 1, k)).calls = 0

\* C25: every builder chain started by bind(T) calls register on the
\* container exactly once: to, toFactory, toSelf and withDependencies
\* register nothing and the terminating method registers once.
C25_OneRegisterPerChain ==
    \A c \in containers, s \in Chains :
        Live(c) => /\ RegisteredOnce(BindChain(c, s.token, s.calls))
                   /\ AccumulatesOnly(c, s)

(* C26 *)

\* bind(T).toFactory(f).withDependencies(d1, ..., dn).inSingletonScope()
DocumentedFactoryChain(deps) ==
    <<Call("toFactory", "function", NoOptions, <<>>),
      Call("withDependencies", Nil, NoOptions, deps),
      Call("inSingletonScope", Nil, NoOptions, <<>>)>>

DependencyLists == {<<>>, <<"A">>, <<"B", "D">>}

\* Container c registers token as a SINGLETON factory of deps in regs.
SingletonFactory(c, token, deps, regs) ==
    /\ token \in DOMAIN regs[c]
    /\ regs[c][token].provider.type = "factory"
    /\ regs[c][token].options.scope = SINGLETON
    /\ regs[c][token].dependencies = deps

\* The chain completed and left the SINGLETON factory registered.
CompletedAsSingleton(c, token, deps, b) ==
    b.ok /\ SingletonFactory(c, token, deps, b.st.regs)

\* C26: on a live container the chain
\* bind(T).toFactory(f).withDependencies(d1, ..., dn).inSingletonScope()
\* completes without an exception and leaves T registered as a SINGLETON
\* factory whose dependency tokens are d1..dn in that order.
C26_DocumentedFactoryChain ==
    \A c \in containers, t \in Tokens, deps \in DependencyLists :
        Live(c) => CompletedAsSingleton(c, t, deps,
                       BindChain(c, t, DocumentedFactoryChain(deps)))

(* C27 *)

\* bind(T).toSelf() and bind(T).to(T), with no scope-selection call after.
UnscopedChains(token) ==
    { <<Call("toSelf", Nil, NoOptions, <<>>)>>,
      <<Call("to", token, NoOptions, <<>>)>> }

\* resolve(token) on c, called right after the chain that left b.
ResolveAfterBind(c, token, b) ==
    ResolveIn(c, token, NewContext(b.st.regs, instances, heap, booted))

\* The resolve found a registration.
Found(r) == r.ok \/ r.err # "ServiceNotFoundError"

\* The chain that left b registered token on c with c's default scope, and
\* a following resolve finds it.
BoundByDefault(c, token, b) ==
    /\ b.ok
    /\ token \in DOMAIN b.st.regs[c]
    /\ b.st.regs[c][token].options.scope = options[c].defaultScope
    /\ Found(ResolveAfterBind(c, token, b))

\* C27: after bind(T).toSelf() or bind(T).to(Impl) on a live container, with
\* no scope-selection call, T is registered with the container's default
\* scope and a following resolve(T) does not raise ServiceNotFoundError.
C27_UnscopedBindRegisters ==
    \A c \in containers, t \in Tokens \cap Classes :
        Live(c) => \A calls \in UnscopedChains(t) :
                       BoundByDefault(c, t, BindChain(c, t, calls))

(* C28 *)

\* resolve(token) on c, called right after the register call that left r.
ResolveAfterRegister(c, token, r) ==
    ResolveIn(c, token, NewContext(r.m.regs, instances, heap, booted))

\* Two resolves in a row behaved as the scope says: one shared instance for
\* SINGLETON, a new instance each time for PROTOTYPE and TRANSIENT.
AsScoped(scope, first, second) ==
    (first.ok /\ second.ok)
    => IF scope = SINGLETON THEN first.val = second.val ELSE first.val # second.val

\* After register({ type: 'class', token: K, useClass: K }), two top-level
\* resolves of K behave as the scope K is decorated with says.
DecoratorScopeHonoured(c, cls, first) ==
    AsScoped(ClassMeta(cls).scope, first, ResolveAfter(c, cls, first))

\* C28: a class decorated @Injectable('prototype') or
\* @Injectable('transient') and registered on a live container through a
\* class provider that names no scope is resolved as a new instance on every
\* top-level resolve, and one decorated @Injectable('singleton') as one
\* shared instance.
C28_DecoratorScope ==
    \A c \in containers, cls \in Classes \cap Tokens :
        Live(c) => DecoratorScopeHonoured(c, cls,
                       ResolveAfterRegister(c, cls,
                           RegisterCall(c, ClassProvider(cls, cls, Nil), NoOptions)))

(* C29 *)

\* The call returned a new container whose parent is c and which c counts
\* among its children.
ChildOf(c, r) ==
    /\ r.ok
    /\ r.val \notin containers
    /\ r.val \in r.m.containers
    /\ r.m.parent[r.val] = c
    /\ r.val \in r.m.children[c]

\* Every option the call did not give has, on the new container, the value
\* it has on c.
InheritsOptions(c, given, r) ==
    \A f \in (DOMAIN options[c]) \ (DOMAIN given) :
        r.m.options[r.val][f] = options[c][f]

\* What C29 says of the createChild call that left r.
ChildCreated(c, given, r) == ChildOf(c, r) /\ InheritsOptions(c, given, r)

\* C29: createChild(options) on a live container P returns a new container
\* whose parent is P and which is among P's children, and every option not
\* given in the call has P's value on it.
C29_CreateChildInherits ==
    \A c \in containers, g \in ContainerOptionChoices :
        (Live(c) /\ Cardinality(containers) < MaxContainers)
        => ChildCreated(c, g, CreateChildCall(c, g))

(* C30 *)

\* The entry c's cache holds for token (NoInst: none).
CachedEntry(c, token) ==
    IF token \in DOMAIN instances[c] THEN instances[c][token] ELSE NoInst

\* The pre-destroy methods of the object c's cache held for token were each
\* called once by the call that left r (or had been, for an entry already
\* marked disposed).
HooksRanOnce(c, token, r) ==
    (token \in DOMAIN instances[c] /\ instances[c][token].instance # Undefined)
    => PreDestroyCalls(instances[c][token].instance, heap, r.m.heap)
          = IF instances[c][token].disposed THEN 0
            ELSE Len(LifecycleMethods(heap, instances[c][token].instance, "preDestroy"))

\* No container other than c has another registry or cache after the call.
OthersKept(c, r) ==
    \A a \in CIds \ {c} :
        /\ r.m.registrations[a] = registrations[a]
        /\ r.m.instances[a] = instances[a]

\* What C30 says of the unbind(token) call on c that left r.
UnboundLocally(c, token, r) ==
    /\ r.ok
    /\ r.val = (token \in DOMAIN registrations[c])
    /\ token \notin DOMAIN r.m.registrations[c]
    /\ token \notin DOMAIN r.m.instances[c]
    /\ HooksRanOnce(c, token, r)
    /\ OthersKept(c, r)
    /\ HasIn(c, token, r.m.registrations)
          = (\E a \in Ancestors(c) : token \in DOMAIN registrations[a])

\* C30: unbind(T) on a live container C returns true exactly when T was in
\* C's local registry; it removes C's registration and cached instance of T,
\* running that instance's pre-destroy methods once, changes no other
\* container's registry or cache, and afterwards C.has(T) is true only if an
\* ancestor registers T.
C30_UnbindLocal ==
    \A c \in containers, t \in Tokens :
        Live(c) => UnboundLocally(c, t, UnbindCall(c, t))

(* C35 *)

\* The providers that build an object of their own: class and factory
\* providers.
BuildingProviders == {p \in Providers : p.type \in {"class", "factory"}}

\* The resolve that left `next` returned an object the registration rid
\* built.
ProducedBy(rid, next) ==
    next.ok => /\ next.val \in 1..Len(next.m.heap)
               /\ next.m.heap[next.val].rid = rid

\* After the register call that left r, c's registry holds the new
\* registration (and only it) for the token, and the next resolve returns
\* an object the new registration built.
Overwritten(c, provider, r) ==
    /\ r.ok
    /\ r.m.regs[c][provider.token].rid = nextRid
    /\ r.m.regs[c][provider.token].provider = provider
    /\ ProducedBy(nextRid, ResolveAfterRegister(c, provider.token, r))

\* C35: a container's registry holds one registration per token, and after
\* register overwrites a registration of T on a live container C, the next
\* C.resolve(T) returns an instance the new provider produced, also when a
\* singleton the old provider produced was cached.
C35_ReRegistration ==
    \A c \in containers, p \in BuildingProviders, o \in ServiceOptionChoices :
        (Live(c) /\ p.token \in DOMAIN registrations[c])
        => Overwritten(c, p, RegisterCall(c, p, o))

(* C36 *)

\* Options whose onActivation callback throws.
ThrowingActivation == {ServiceOptions(s, "throw") : s \in {Nil, PROTOTYPE}}

\* The call that left r added no entry for token to any instance cache.
NothingCachedFor(token, r) ==
    \A c \in CIds :
        token \in DOMAIN r.m.instances[c]
        => /\ token \in DOMAIN instances[c]
           /\ r.m.instances[c][token] = instances[c][token]

\* A resolve that raised cached nothing for its token.
FailureCachesNothing(token, r) == ~r.ok => NothingCachedFor(token, r)

\* C36: when a top-level resolve(T) on a live container raises, for a
\* missing dependency, a cycle, an error of a constructor, factory or hook,
\* or an error of T's onActivation callback, no instance of T has been added
\* to any container's instance cache.
C36_FailedResolveCachesNothing ==
    \A c \in containers, t \in Tokens :
        Live(c) =>
            /\ FailureCachesNothing(t, ResolveCall(c, t))
            /\ \A p \in {q \in Providers : q.token = t}, o \in ThrowingActivation :
                  FailureCachesNothing(t,
                      ResolveAfterRegister(c, t, RegisterCall(c, p, o)))

(* C37 *)

\* tryResolve returned empty.
Empty(r) == r.ok /\ r.val = Undefined

\* C37: tryResolve(T) on a live container returns empty only when T has no
\* registration on the container or its ancestors; when T is registered,
\* tryResolve(T) returns T's instance or raises, and a missing dependency
\* below T is not reported as T being absent.
C37_EmptyOnlyWhenAbsent ==
    \A c \in containers, t \in Tokens :
        (Live(c) /\ Has(c, t)) => ~Empty(TryResolveCall(c, t))

(* C38 *)

\* Container c is fully torn down in the state st = [disposed, children,
\* instances, registrations, ...]: nothing registered, nothing cached, out
\* of its parent's children.
FullyTornDown(c, st) ==
    /\ st.registrations[c] = EmptyMap
    /\ st.instances[c] = EmptyMap
    /\ parent[c] # 0 => c \notin st.children[parent[c]]

\* Every container that the dispose() call that left st found or left
\* disposed is fully torn down, also after one more dispose() call on it.
NeverHalfDone(c, st) ==
    \A d \in containers :
        st.disposed[d] => \/ FullyTornDown(d, st)
                          \/ FullyTornDown(d, DisposeAgain(d, st))

\* C38: after a dispose() call has finished, by returning or by raising
\* because a hook failed, every container whose disposed flag is true has an
\* empty registry and instance cache and is no member of its parent's
\* children, at the latest after a further dispose() call on it.
C38_NoHalfTeardown ==
    \A c \in containers : NeverHalfDone(c, DisposeCall(c))

(* C39 *)

\* The object the resolve that left r returned had no pre-destroy method
\* called on it.
NotDestroyed(r) ==
    (r.ok /\ r.val \in 1..Len(r.m.heap)) => r.m.heap[r.val].pre = 0

\* C39: in every state register, resolve, unbind and clear lead to, an
\* object that resolve returns on a live container has not had a
\* pre-destroy method called on it.
C39_NeverDestroyedObject ==
    \A c \in containers, t \in Tokens : Live(c) => NotDestroyed(ResolveCall(c, t))

(* C31 *)

\* The objects whose pre-destroy methods the dispose() call that left st
\* called.
Destroyed(st) == {o \in 1..Len(heap) : st.heap[o].pre > heap[o].pre}

\* No pre-destroy method of object o is still running in the heap hp.
PreDestroyFinished(hp, o) ==
    \A i \in 1..Len(LifecycleMethods(hp, o, "preDestroy")) :
        LifecycleMethods(hp, o, "preDestroy")[i] \notin hp[o].awaiting

\* When the promise of the dispose() call that left st is fulfilled, every
\* pre-destroy method the call started has finished.
CompletionSignal(st) ==
    st.ok => \A o \in Destroyed(st) : PreDestroyFinished(st.heap, o)

\* C31: when the promise returned by dispose() settles, every pre-destroy
\* method of every singleton the call disposed has finished, the async ones
\* included.
C31_DisposeCompletionSignal ==
    \A c \in containers : CompletionSignal(DisposeCall(c))

(* C32 *)

\* No post-construct method of object o is still running in the heap hp.
PostConstructFinished(hp, o) ==
    \A i \in 1..Len(LifecycleMethods(hp, o, "postConstruct")) :
        LifecycleMethods(hp, o, "postConstruct")[i] \notin hp[o].awaiting

\* The objects the call that left r handed to a dependent it built.
HandedOver(r) ==
    (UNION {{r.m.heap[o].args[i] : i \in 1..Len(r.m.heap[o].args)} : o \in Built(r)}
     \cup UNION {{r.m.heap[o].fields[k] : k \in DOMAIN r.m.heap[o].fields} : o \in Built(r)})
    \ {Undefined}

\* The instance the resolve that left r returned, and every instance it
\* handed to a dependent, has finished its post-construct methods.
FullyInitialised(r) ==
    r.ok => /\ r.val \in 1..Len(r.m.heap) => PostConstructFinished(r.m.heap, r.val)
            /\ \A o \in HandedOver(r) : PostConstructFinished(r.m.heap, o)

\* C32: an instance resolve returns, or hands to a dependent, has finished
\* its post-construct methods, the async ones included: their promises have
\* settled.
C32_AsyncPostConstruct ==
    \A c \in containers, t \in Tokens : Live(c) => FullyInitialised(ResolveCall(c, t))

(* C33 *)

\* The middlewares the decorators of the given kind declare, from the top
\* decorator to the bottom one.
RECURSIVE DeclaredMiddlewares(_, _)
DeclaredMiddlewares(decorators, kind) ==
    IF decorators = <<>> THEN <<>>
    ELSE (IF Head(decorators).kind = kind THEN Head(decorators).middlewares ELSE <<>>)
         \o DeclaredMiddlewares(Tail(decorators), kind)

DeclarationOf(C, propertyKey) ==
    CHOOSE method \in {ControllerDeclaration(C).methods[i] :
                          i \in 1..Len(ControllerDeclaration(C).methods)} :
        method.propertyKey = propertyKey

\* What a request to the route of method propertyKey of controller C is to
\* run: the middlewares of the controller, those declared for the route
\* (by @Use, then in the options of the route decorator), then the method.
DeclaredChain(C, propertyKey) ==
    getControllerMetadata(C).middlewares
    \o DeclaredMiddlewares(DeclarationOf(C, propertyKey).decorators, "use")
    \o DeclaredMiddlewares(DeclarationOf(C, propertyKey).decorators, "route")
    \o <<propertyKey>>

IsPrefix(s, t) == Len(s) <= Len(t) /\ \A i \in 1..Len(s) : s[i] = t[i]

\* The functions that ran are the declared chain, in its order, up to the
\* first middleware that did not call next().
RanInOrder(ran, chain, stops) ==
    /\ IsPrefix(ran, chain)
    /\ \A i \in 1..(Len(ran) - 1) : ran[i] \notin stops
    /\ Len(ran) < Len(chain) => ran[Len(ran)] \in stops

HandlerOf(route) == route.stack[Len(route.stack)]

MiddlewareOrder(rt, res, stops) ==
    res.matched # 0 =>
        RanInOrder(res.ran,
                   DeclaredChain(HandlerOf(rt[res.matched]).controller,
                                 HandlerOf(rt[res.matched]).name),
                   stops)

\* C33: a request matched by a controller route runs the middlewares of the
\* controller in declaration order, then those of the route in declaration
\* order, then the controller method, and the method runs only if every
\* middleware before it called next().
C33_MiddlewareOrder ==
    \A request \in Requests, stops \in SUBSET MiddlewareFunctions,
       behaviour \in Behaviours :
        MiddlewareOrder(router, Handle(router, request, stops, behaviour), stops)

(* C34 *)

\* The request reached the generated handler: the controller method was
\* invoked.
Invoked(rt, res) == res.matched # 0 /\ Len(res.ran) = Len(rt[res.matched].stack)

\* The one thing the claim has the handler do for a method that behaves as
\* given.
StatedOutcome(behaviour) ==
    IF behaviour.throws THEN <<"next(error)">>
    ELSE IF behaviour.responds \/ behaviour.result = "undefined" THEN <<>>
    ELSE IF behaviour.result = "BaseResponse" THEN <<"result.send(res)">>
    ELSE <<"res.json(result)">>

\* The responses written on res: the one of the method, if it sent one, and
\* those of the handler.
SentByHandler(res, behaviour) == res.sent - (IF behaviour.responds THEN 1 ELSE 0)

NeverTwiceNorAfterError(res, behaviour) ==
    /\ res.sent <= 1
    /\ "next(error)" \in {res.calls[i] : i \in 1..Len(res.calls)}
          => SentByHandler(res, behaviour) = 0

ExactlyOneOutcome(rt, res, behaviour) ==
    Invoked(rt, res) =>
        /\ res.calls = StatedOutcome(behaviour)
        /\ NeverTwiceNorAfterError(res, behaviour)

\* C34 as stated: for each invocation of a controller method the handler
\* does exactly one of nothing (headers already sent, or undefined returned),
\* result.send(res) (a BaseResponse), res.json(result) (another defined
\* result) or next(error) (the method threw or rejected), and it never sends
\* twice nor after an error.
C34_ExactlyOneOutcome ==
    \A request \in Requests, behaviour \in Behaviours :
        ExactlyOneOutcome(router, Handle(router, request, {}, behaviour), behaviour)

\* The outcome with the failure of the send itself taken into account: a
\* result.send(res) or res.json(result) that throws sends nothing and is
\* followed by next(error).
ActualOutcome(behaviour) ==
    IF Len(StatedOutcome(behaviour)) = 1 /\ ~behaviour.throws /\ ~behaviour.serializable
    THEN StatedOutcome(behaviour) \o <<"next(error)">>
    ELSE StatedOutcome(behaviour)

OneOutcomeOrFailedSend(rt, res, behaviour) ==
    Invoked(rt, res) =>
        /\ res.calls = ActualOutcome(behaviour)
        /\ NeverTwiceNorAfterError(res, behaviour)

\* C34, amended: for each invocation of a controller method the handler
\* does exactly one of nothing, result.send(res), res.json(result) or
\* next(error), by the stated cases, except that a result.send(res) or
\* res.json(result) that throws is followed by next(error); at most one
\* response is sent, and the handler sends none when it calls next(error).
C34_OutcomeOrFailedSend ==
    \A request \in Requests, behaviour \in Behaviours :
        OneOutcomeOrFailedSend(router, Handle(router, request, {}, behaviour), behaviour)

\* A request reached a controller method whose result could not be sent:
\* the handler called res.json(result) and then next(error).
C34_Witness ==
    /\ Invoked(router, response)
    /\ response.calls = <<"res.json(result)", "next(error)">>
    /\ response.sent = 0

====
